---- MODULE Spec2Model ----
(***************************************************************************)
(* Verification model of the AI coding agent of the web IDE.               *)
(*                                                                         *)
(* Part 1: the chat agent loop (runAgentLoop of the chat service) with the *)
(* tool dispatch it performs (mapToolToAction, executeAction): Spec.       *)
(*                                                                         *)
(* Part 2: the exported functions of the tool executor and of the model    *)
(* router called directly, one call after the other, on a disk that holds  *)
(* the project and files outside it: SpecCalls.                            *)
(*                                                                         *)
(* Part 3: listFiles on directory trees around its cap of 200 entries, one *)
(* step of the walk at a time: SpecList.                                   *)
(*                                                                         *)
(* Part 4: the helpers that bound the system prompt (compressFileTree,     *)
(* truncateContent), one call each: SpecPrompt.                            *)
(*                                                                         *)
(* Part 5: the loop as streamChatResponse starts it, for every model       *)
(* override (SpecChat); on projects whose file is empty or longer than the *)
(* preview of a tool result (SpecOutput); with every await resolving       *)
(* (SpecFair); and two loops of two callers interleaved at their awaits    *)
(* around the current project of the tool executor (SpecProjects).         *)
(*                                                                         *)
(* Part 6: the browser hook useChatStream reading the response stream in   *)
(* chunks of any size: SpecClient.                                         *)
(*                                                                         *)
(* Part 7: executeActions on lists of actions (SpecActions) and the        *)
(* orchestrator loop of agent-orchestrator.ts that calls it                *)
(* (SpecOrchestrator).                                                     *)
(*                                                                         *)
(* Part 8: the project runner, its map of running processes, the handlers  *)
(* of the child processes and the kill timer: SpecRunner.                  *)
(*                                                                         *)
(* Part 9: calls of applyDiff on one file whose reads and writes           *)
(* interleave: SpecEdits.                                                  *)
(*                                                                         *)
(* Strings of the program are TLA+ strings: \o is concatenation, Len the   *)
(* length and SubSeq the substring, so that formatting and truncation are  *)
(* computed as the code computes them.  An optional field of a JavaScript  *)
(* object that is undefined is a field the record does not have (this is   *)
(* also what JSON.stringify writes).                                       *)
(***************************************************************************)
EXTENDS Integers, Sequences, FiniteSets, TLC

(***************************************************************************)
(* Bounds of the model.                                                    *)
(***************************************************************************)

\* The step budget of the chat agent loop.  The source sets it to 200; the
\* model scales it down so that runs that exhaust the budget are explored.
MAX_AGENT_STEPS == 2

\* The largest number of content blocks in one model response.
MaxBlocks == 2

(***************************************************************************)
(* Program constants.                                                      *)
(***************************************************************************)

PROJECT_ROOT == "/app"

ALLOWED_EXTENSIONS ==
    {".ts", ".tsx", ".js", ".jsx", ".json", ".css", ".html", ".md", ".txt", ".sql"}

BLOCKED_PATHS == {"node_modules", ".git", ".env", "secrets"}

MAX_DELETE_LINES == 50

\* The number of characters of a tool output echoed into a tool_result event.
OUTPUT_PREVIEW_CHARS == 500

blockedCommands ==
    {"rm -rf", "rm -r", "sudo", "chmod", "chown", "mv /", "cp /", "> /",
     "curl | bash", "wget | bash", "eval", "exec", "DROP TABLE",
     "DROP DATABASE", "DELETE FROM", "TRUNCATE"}

(***************************************************************************)
(* String helpers (JavaScript string methods).                             *)
(***************************************************************************)

Min(a, b) == IF a < b THEN a ELSE b

\* s.slice(0, n)
Slice0(s, n) == SubSeq(s, 1, Min(n, Len(s)))

\* s.startsWith(p)
StartsWith(s, p) == Len(p) <= Len(s) /\ SubSeq(s, 1, Len(p)) = p

\* s.includes(sub)
Includes(s, sub) ==
    \E i \in 1..(Len(s) - Len(sub) + 1) : SubSeq(s, i, i + Len(sub) - 1) = sub

\* The value of a property that an object does not have.
Undefined == "<undefined>"

\* input.f of a JavaScript object
Get(obj, f) == IF f \in DOMAIN obj THEN obj[f] ELSE Undefined

(***************************************************************************)
(* Node's path module (POSIX), as far as the tool executor uses it.        *)
(***************************************************************************)

RECURSIVE SplitAcc(_, _, _, _)
SplitAcc(s, i, cur, acc) ==
    IF i > Len(s) THEN Append(acc, cur)
    ELSE IF SubSeq(s, i, i) = "/" THEN SplitAcc(s, i + 1, "", Append(acc, cur))
    ELSE SplitAcc(s, i + 1, cur \o SubSeq(s, i, i), acc)

\* s.split("/")
SplitPath(s) == SplitAcc(s, 1, "", <<>>)

RECURSIVE JoinPath(_)
\* segs.join("/")
JoinPath(segs) ==
    IF segs = <<>> THEN ""
    ELSE IF Len(segs) = 1 THEN segs[1]
    ELSE segs[1] \o "/" \o JoinPath(Tail(segs))

RECURSIVE NormSegs(_, _, _)
\* normalizeString of Node's path module: drops empty and "." segments and
\* resolves ".." against the segment before it; a ".." with nothing to
\* remove is kept only when the path is relative (allowAboveRoot).
NormSegs(segs, allowAboveRoot, acc) ==
    IF segs = <<>> THEN acc
    ELSE LET h == Head(segs)
             t == Tail(segs)
         IN IF h = "" \/ h = "." THEN NormSegs(t, allowAboveRoot, acc)
            ELSE IF h = ".."
            THEN IF acc # <<>> /\ acc[Len(acc)] # ".."
                 THEN NormSegs(t, allowAboveRoot, SubSeq(acc, 1, Len(acc) - 1))
                 ELSE IF allowAboveRoot
                      THEN NormSegs(t, allowAboveRoot, Append(acc, ".."))
                      ELSE NormSegs(t, allowAboveRoot, acc)
            ELSE NormSegs(t, allowAboveRoot, Append(acc, h))

IsAbsolute(p) == Len(p) > 0 /\ SubSeq(p, 1, 1) = "/"

\* path.normalize(p)
PathNormalize(p) ==
    IF Len(p) = 0 THEN "."
    ELSE LET abs   == IsAbsolute(p)
             trail == SubSeq(p, Len(p), Len(p)) = "/"
             body  == JoinPath(NormSegs(SplitPath(p), ~abs, <<>>))
         IN IF Len(body) = 0
            THEN (IF abs THEN "/" ELSE IF trail THEN "./" ELSE ".")
            ELSE (IF abs THEN "/" ELSE "") \o body \o (IF trail THEN "/" ELSE "")

\* path.resolve(root, p) for an absolute root
PathResolve(root, p) ==
    LET full == IF IsAbsolute(p) THEN p
                ELSE IF Len(p) = 0 THEN root
                ELSE root \o "/" \o p
        body == JoinPath(NormSegs(SplitPath(full), FALSE, <<>>))
    IN "/" \o body

RECURSIVE LastIndexOf(_, _, _)
\* the largest 1-based index i <= from with s[i] = ch, or 0
LastIndexOf(s, ch, from) ==
    IF from < 1 THEN 0
    ELSE IF SubSeq(s, from, from) = ch THEN from
    ELSE LastIndexOf(s, ch, from - 1)

\* path.basename(p) for a path without trailing separator
PathBasename(p) == SubSeq(p, LastIndexOf(p, "/", Len(p)) + 1, Len(p))

\* path.extname(p): from the last "." of the base name, "" when there is none
\* or when the base name starts with its only ".".
PathExtname(p) ==
    LET base == PathBasename(p)
        dot  == LastIndexOf(base, ".", Len(base))
    IN IF dot <= 1 THEN "" ELSE SubSeq(base, dot, Len(base))

(***************************************************************************)
(* Sandbox guard.                                                          *)
(***************************************************************************)

isPathSafe(filePath) ==
    LET normalized == PathNormalize(filePath)
        resolved   == PathResolve(PROJECT_ROOT, normalized)
    IN /\ StartsWith(resolved, PROJECT_ROOT)
       /\ \A blocked \in BLOCKED_PATHS : ~Includes(normalized, blocked)

UpperLetters == "ABCDEFGHIJKLMNOPQRSTUVWXYZ"
LowerLetters == "abcdefghijklmnopqrstuvwxyz"

\* c.toLowerCase() of one character
LowerChar(c) ==
    IF \E i \in 1..26 : SubSeq(UpperLetters, i, i) = c
    THEN LET i == CHOOSE j \in 1..26 : SubSeq(UpperLetters, j, j) = c
         IN SubSeq(LowerLetters, i, i)
    ELSE c

RECURSIVE ToLowerCase(_)
ToLowerCase(s) ==
    IF Len(s) = 0 THEN ""
    ELSE LowerChar(SubSeq(s, 1, 1)) \o ToLowerCase(SubSeq(s, 2, Len(s)))

\* Variant of isCommandSafe that compares without lowering the case.
isCommandSafeCaseSensitive(command) ==
    ~ \E blocked \in blockedCommands : Includes(command, blocked)

isCommandSafe(command) ==
    LET lowerCmd == ToLowerCase(command)
    IN ~ \E blocked \in blockedCommands : Includes(lowerCmd, ToLowerCase(blocked))

(***************************************************************************)
(* Tool executor.                                                          *)
(*                                                                         *)
(* The file system is a function from the absolute path of every existing  *)
(* file to its content.  A tool function applied to its arguments and a    *)
(* file system gives the set of outcomes [result, files] it can have: the  *)
(* ToolResult it returns and the file system it leaves.  The set has more  *)
(* than one element where the outcome depends on the operating system      *)
(* (an I/O error, the exit status or the run time of a spawned process).   *)
(***************************************************************************)

\* stdout of a command that exits with status 0, and the stderr or message
\* of one that exits non-zero or is killed at the 30 s timeout.
CommandOutputs == {"ok"}
CommandErrors  == {"exit 1", "Command failed: timeout"}

Ok(out)   == [success |-> TRUE, output |-> out]
Fail(err) == [success |-> FALSE, error |-> err]

\* What a call did: the ToolResult it returned, the file system it left, the
\* absolute paths it passed to the fs module and the command lines it passed
\* to the shell (execAsync).
Effect(result, fs, touched, spawned) ==
    [result |-> result, files |-> fs, touched |-> touched, spawned |-> spawned]

Outcome(result, fs) == Effect(result, fs, {}, <<>>)

\* A call that ended with an exception instead of a return value.
Thrown(message, fs) ==
    [thrown |-> message, files |-> fs, touched |-> {}, spawned |-> <<>>]

IsThrown(out) == "thrown" \in DOMAIN out

\* The message of the TypeError that a string method or a path function
\* raises on an argument that is undefined.
TypeErrorMessage == "The argument must be of type string. Received undefined"

CountChar(s, ch) == Cardinality({i \in 1..Len(s) : SubSeq(s, i, i) = ch})

\* s.split("\n").length
LineCount(s) == CountChar(s, "\n") + 1

RECURSIVE DecimalDigits(_)
DecimalDigits(n) ==
    IF n < 10 THEN SubSeq("0123456789", n + 1, n + 1)
    ELSE DecimalDigits(n \div 10) \o SubSeq("0123456789", (n % 10) + 1, (n % 10) + 1)

\* String(n)
NumberToString(n) == IF n < 0 THEN "-" \o DecimalDigits(0 - n) ELSE DecimalDigits(n)

\* s.indexOf(sub) as a 1-based index, 0 when sub does not occur
IndexOf(s, sub) ==
    IF Includes(s, sub)
    THEN CHOOSE i \in 1..(Len(s) - Len(sub) + 1) :
            /\ SubSeq(s, i, i + Len(sub) - 1) = sub
            /\ \A j \in 1..(i - 1) : SubSeq(s, j, j + Len(sub) - 1) # sub
    ELSE 0

RECURSIVE ExpandReplacement(_, _)
\* The replacement text of String.prototype.replace with a string pattern:
\* $$ stands for a dollar sign and $& for the matched text; any other
\* character stands for itself.  (The patterns for the text before and
\* after the match are left out: they need a quote character, which no
\* string of the model holds.)
ExpandReplacement(repl, matched) ==
    IF Len(repl) = 0 THEN ""
    ELSE IF Len(repl) >= 2 /\ SubSeq(repl, 1, 1) = "$" /\ SubSeq(repl, 2, 2) \in {"$", "&"}
    THEN (IF SubSeq(repl, 2, 2) = "$" THEN "$" ELSE matched)
           \o ExpandReplacement(SubSeq(repl, 3, Len(repl)), matched)
    ELSE SubSeq(repl, 1, 1) \o ExpandReplacement(SubSeq(repl, 2, Len(repl)), matched)

\* content.replace(search, replace) with a string search: the first
\* occurrence only
StringReplace(content, search, replace) ==
    LET i == IndexOf(content, search)
    IN IF i = 0 THEN content
       ELSE LET before == SubSeq(content, 1, i - 1)
                after  == SubSeq(content, i + Len(search), Len(content))
            IN before \o ExpandReplacement(replace, search) \o after

\* fs.writeFile(fullPath, content) that succeeds
\* Variant of FsWrite that appends to an existing file.
FsWriteAppend(fs, fullPath, content) ==
    [p \in DOMAIN fs \cup {fullPath} |->
        IF p # fullPath THEN fs[p]
        ELSE IF p \in DOMAIN fs THEN fs[p] \o content ELSE content]

\* A JavaScript string is a sequence of UTF-16 code units and a file is a
\* sequence of bytes.  Both are written here as strings: an ASCII character
\* stands for itself (one unit, one byte), and four reserved characters
\* stand for what ASCII cannot write.
HighSurrogate   == "^"   \* a code unit in 0xD800..0xDBFF
LowSurrogate    == "~"   \* a code unit in 0xDC00..0xDFFF
ReplacementChar == "@"   \* U+FFFD (bytes EF BF BD)
InvalidByte     == "%"   \* a byte that is no part of a valid UTF-8 sequence

\* the concatenation of unitAt[lo], ..., unitAt[hi]
RECURSIVE Concat(_, _, _)
Concat(unitAt, lo, hi) ==
    IF lo > hi THEN ""
    ELSE IF lo = hi THEN unitAt[lo]
    ELSE LET mid == (lo + hi) \div 2
         IN Concat(unitAt, lo, mid) \o Concat(unitAt, mid + 1, hi)

\* Buffer.from(content, "utf-8"), as fs.writeFile(_, content, "utf-8") does: a
\* high surrogate followed by a low one is one code point (four bytes, written
\* as the pair), any other surrogate is encoded as U+FFFD.
Utf8Encode(content) ==
    LET unit(i) == SubSeq(content, i, i)
        paired(i) ==
           \/ unit(i) = HighSurrogate /\ i < Len(content) /\ unit(i + 1) = LowSurrogate
           \/ unit(i) = LowSurrogate /\ i > 1 /\ unit(i - 1) = HighSurrogate
    IN Concat([i \in 1..Len(content) |->
                  IF unit(i) \in {HighSurrogate, LowSurrogate} /\ ~paired(i)
                  THEN ReplacementChar ELSE unit(i)],
              1, Len(content))

\* buffer.toString("utf-8"), as fs.readFile(_, "utf-8") does: invalid bytes
\* are decoded as U+FFFD, a buffer without one decodes to the text it holds.
Utf8Decode(bytes) ==
    IF \A i \in 1..Len(bytes) : SubSeq(bytes, i, i) # InvalidByte
    THEN bytes
    ELSE Concat([i \in 1..Len(bytes) |->
                    IF SubSeq(bytes, i, i) = InvalidByte THEN ReplacementChar
                    ELSE SubSeq(bytes, i, i)],
                1, Len(bytes))

FsWrite(fs, fullPath, content) ==
    [p \in DOMAIN fs \cup {fullPath} |-> IF p = fullPath THEN content ELSE fs[p]]

readFile(filePath, fs) ==
    IF filePath = Undefined THEN {Thrown(TypeErrorMessage, fs)}
    ELSE IF ~isPathSafe(filePath)
    THEN {Outcome(Fail("Access denied: path not allowed"), fs)}
    ELSE LET fullPath == PathResolve(PROJECT_ROOT, filePath)
         IN IF fullPath \in DOMAIN fs
            THEN {Effect(Ok(Utf8Decode(fs[fullPath])), fs, {fullPath}, <<>>)}
            ELSE {Effect(Fail("File not found: " \o filePath), fs, {fullPath}, <<>>)}

\* Variant of writeFile that tests the extension after the write.
writeFileLateExtensionTest(filePath, content, fs) ==
    IF filePath = Undefined THEN {Thrown(TypeErrorMessage, fs)}
    ELSE IF ~isPathSafe(filePath)
    THEN {Outcome(Fail("Access denied: path not allowed"), fs)}
    ELSE LET ext      == PathExtname(filePath)
             fullPath == PathResolve(PROJECT_ROOT, filePath)
         IN IF content = Undefined
            THEN {Effect(Fail("Failed to write file: " \o filePath), fs, {fullPath}, <<>>)}
            ELSE IF ext # "" /\ ext \notin ALLOWED_EXTENSIONS
            THEN {Effect(Fail("File type not allowed: " \o ext),
                         FsWrite(fs, fullPath, Utf8Encode(content)), {fullPath}, <<>>)}
            ELSE {Effect(Ok("File written: " \o filePath),
                         FsWrite(fs, fullPath, Utf8Encode(content)), {fullPath}, <<>>),
                  Effect(Fail("Failed to write file: " \o filePath), fs, {fullPath}, <<>>)}

writeFile(filePath, content, fs) ==
    IF filePath = Undefined THEN {Thrown(TypeErrorMessage, fs)}
    ELSE IF ~isPathSafe(filePath)
    THEN {Outcome(Fail("Access denied: path not allowed"), fs)}
    ELSE LET ext      == PathExtname(filePath)
             fullPath == PathResolve(PROJECT_ROOT, filePath)
         IN IF ext # "" /\ ext \notin ALLOWED_EXTENSIONS
            THEN {Outcome(Fail("File type not allowed: " \o ext), fs)}
            ELSE IF content = Undefined
            THEN {Effect(Fail("Failed to write file: " \o filePath), fs, {fullPath}, <<>>)}
            ELSE {Effect(Ok("File written: " \o filePath),
                         FsWrite(fs, fullPath, Utf8Encode(content)), {fullPath}, <<>>),
                  Effect(Fail("Failed to write file: " \o filePath), fs, {fullPath}, <<>>)}

\* Variant of ApplyDiffToContent without the test content.includes(search).
ApplyDiffToContentNoSearchTest(filePath, fullPath, content, search, replace, fs) ==
    IF search = Undefined \/ replace = Undefined
    THEN {Effect(Fail("Failed to apply diff: " \o filePath), fs, {fullPath}, <<>>)}
    ELSE LET deletedLines == LineCount(search) - LineCount(replace)
         IN IF deletedLines > MAX_DELETE_LINES
            THEN {Effect(Fail("Cannot delete more than "
                              \o NumberToString(MAX_DELETE_LINES)
                              \o " lines at once (trying to delete "
                              \o NumberToString(deletedLines) \o ")"),
                         fs, {fullPath}, <<>>)}
            ELSE {Effect(Ok("Diff applied to: " \o filePath),
                         FsWrite(fs, fullPath,
                                 Utf8Encode(StringReplace(content, search, replace))),
                         {fullPath}, <<>>),
                  Effect(Fail("Failed to apply diff: " \o filePath), fs, {fullPath}, <<>>)}

\* Variant of ApplyDiffToContent that refuses at the threshold itself.
ApplyDiffToContentOffByOne(filePath, fullPath, content, search, replace, fs) ==
    IF ~Includes(content, IF search = Undefined THEN "undefined" ELSE search)
    THEN {Effect(Fail("Search string not found in file"), fs, {fullPath}, <<>>)}
    ELSE IF search = Undefined \/ replace = Undefined
    THEN {Effect(Fail("Failed to apply diff: " \o filePath), fs, {fullPath}, <<>>)}
    ELSE LET deletedLines == LineCount(search) - LineCount(replace)
         IN IF deletedLines >= MAX_DELETE_LINES
            THEN {Effect(Fail("Cannot delete more than "
                              \o NumberToString(MAX_DELETE_LINES)
                              \o " lines at once (trying to delete "
                              \o NumberToString(deletedLines) \o ")"),
                         fs, {fullPath}, <<>>)}
            ELSE {Effect(Ok("Diff applied to: " \o filePath),
                         FsWrite(fs, fullPath,
                                 Utf8Encode(StringReplace(content, search, replace))),
                         {fullPath}, <<>>),
                  Effect(Fail("Failed to apply diff: " \o filePath), fs, {fullPath}, <<>>)}

\* applyDiff after the file was read: the part of the try block from
\* content.includes(search) on
ApplyDiffToContent(filePath, fullPath, content, search, replace, fs) ==
    IF ~Includes(content, IF search = Undefined THEN "undefined" ELSE search)
    THEN {Effect(Fail("Search string not found in file"), fs, {fullPath}, <<>>)}
    ELSE IF search = Undefined \/ replace = Undefined
    THEN {Effect(Fail("Failed to apply diff: " \o filePath), fs, {fullPath}, <<>>)}
    ELSE LET deletedLines == LineCount(search) - LineCount(replace)
         IN IF deletedLines > MAX_DELETE_LINES
            THEN {Effect(Fail("Cannot delete more than "
                              \o NumberToString(MAX_DELETE_LINES)
                              \o " lines at once (trying to delete "
                              \o NumberToString(deletedLines) \o ")"),
                         fs, {fullPath}, <<>>)}
            ELSE {Effect(Ok("Diff applied to: " \o filePath),
                         FsWrite(fs, fullPath,
                                 Utf8Encode(StringReplace(content, search, replace))),
                         {fullPath}, <<>>),
                  Effect(Fail("Failed to apply diff: " \o filePath), fs, {fullPath}, <<>>)}

applyDiff(filePath, search, replace, fs) ==
    IF filePath = Undefined THEN {Thrown(TypeErrorMessage, fs)}
    ELSE IF ~isPathSafe(filePath)
    THEN {Outcome(Fail("Access denied: path not allowed"), fs)}
    ELSE LET fullPath == PathResolve(PROJECT_ROOT, filePath)
         IN IF fullPath \notin DOMAIN fs
            THEN {Effect(Fail("Failed to apply diff: " \o filePath), fs, {fullPath}, <<>>)}
            ELSE ApplyDiffToContent(filePath, fullPath, Utf8Decode(fs[fullPath]),
                                    search, replace, fs)

runCommand(command, fs) ==
    IF command = Undefined THEN {Thrown(TypeErrorMessage, fs)}
    ELSE IF ~isCommandSafe(command)
    THEN {Outcome(Fail("Command blocked for security reasons"), fs)}
    ELSE {Effect(Ok(out), fs, {}, <<command>>) : out \in CommandOutputs}
         \cup {Effect(Fail(err), fs, {}, <<command>>) : err \in CommandErrors}

\* ---- listFiles ------------------------------------------------------------

\* the number of entries at which the walk stops
LIST_FILES_CAP == 200

\* fs.readdir(dir, {withFileTypes: true}): one entry per file and per
\* directory directly in dir
readdir(dir, fs) ==
    {LET rest  == SubSeq(p, Len(dir) + 2, Len(p))
         slash == IndexOf(rest, "/")
     IN [name        |-> IF slash = 0 THEN rest ELSE SubSeq(rest, 1, slash - 1),
         isDirectory |-> slash # 0] :
       p \in {q \in DOMAIN fs : StartsWith(q, dir \o "/")}}

\* the directory exists (fs.readdir does not throw)
DirectoryExists(dir, fs) == \E q \in DOMAIN fs : StartsWith(q, dir \o "/")

\* readdir returns the entries in an order that the file system decides:
\* some fixed order, or that order with the directories (or the files) first
ReaddirOrders == {"any", "directoriesFirst", "filesFirst"}

\* the entry the for loop takes next
NextEntry(remaining, order) ==
    LET directories == {e \in remaining : e.isDirectory}
        plain       == remaining \ directories
        pool        == IF order = "directoriesFirst" /\ directories # {} THEN directories
                       ELSE IF order = "filesFirst" /\ plain # {} THEN plain
                       ELSE remaining
    IN CHOOSE e \in pool : TRUE

\* An activation of walk(dir, prefix): the entries the for loop has not taken
\* yet and its position, "next" before an entry is taken, "pushed" after the
\* entry was pushed (and its directory walked): before the break test.
Frame(dir, prefix, fs) ==
    [dir |-> dir, prefix |-> prefix, remaining |-> readdir(dir, fs), at |-> "next"]

\* await walk(fullPath) is called: the call stack of walk and const files
StartWalk(fullPath, fs) == [stack |-> <<Frame(fullPath, "", fs)>>, files |-> <<>>]

WalkDone(w) == w.stack = <<>>

Pop(stack) == SubSeq(stack, 1, Len(stack) - 1)

\* Variant of WalkStep without the break at the end of the loop body.
WalkStepNoBreak(w, fs, order) ==
    LET top  == w.stack[Len(w.stack)]
        base == Pop(w.stack)
    IN IF top.at = "pushed"
       THEN [w EXCEPT !.stack = Append(base, [top EXCEPT !.at = "next"])]
       ELSE IF top.remaining = {}
       THEN [w EXCEPT !.stack = base]
       ELSE LET entry == NextEntry(top.remaining, order)
                rest  == top.remaining \ {entry}
            IN IF \E b \in BLOCKED_PATHS : Includes(entry.name, b)
               THEN [w EXCEPT !.stack = Append(base, [top EXCEPT !.remaining = rest])]
               ELSE LET relativePath == IF top.prefix # ""
                                        THEN top.prefix \o "/" \o entry.name
                                        ELSE entry.name
                        pushed == Append(w.files, IF entry.isDirectory
                                                  THEN relativePath \o "/"
                                                  ELSE relativePath)
                        here   == Append(base, [top EXCEPT !.remaining = rest,
                                                           !.at = "pushed"])
                    IN IF entry.isDirectory /\ Len(pushed) < LIST_FILES_CAP
                       THEN [stack |-> Append(here, Frame(top.dir \o "/" \o entry.name,
                                                          relativePath, fs)),
                             files |-> pushed]
                       ELSE [stack |-> here, files |-> pushed]

\* One step of the innermost activation of walk: take the next entry (skip
\* it when its name holds a blocked name, else push it and, for a directory
\* below the cap, call walk on it), or do the break test after an entry, or
\* return when no entry is left.
WalkStep(w, fs, order) ==
    LET top  == w.stack[Len(w.stack)]
        base == Pop(w.stack)
    IN IF top.at = "pushed"
       THEN IF Len(w.files) >= LIST_FILES_CAP
            THEN [w EXCEPT !.stack = base]
            ELSE [w EXCEPT !.stack = Append(base, [top EXCEPT !.at = "next"])]
       ELSE IF top.remaining = {}
       THEN [w EXCEPT !.stack = base]
       ELSE LET entry == NextEntry(top.remaining, order)
                rest  == top.remaining \ {entry}
            IN IF \E b \in BLOCKED_PATHS : Includes(entry.name, b)
               THEN [w EXCEPT !.stack = Append(base, [top EXCEPT !.remaining = rest])]
               ELSE LET relativePath == IF top.prefix # ""
                                        THEN top.prefix \o "/" \o entry.name
                                        ELSE entry.name
                        pushed == Append(w.files, IF entry.isDirectory
                                                  THEN relativePath \o "/"
                                                  ELSE relativePath)
                        here   == Append(base, [top EXCEPT !.remaining = rest,
                                                           !.at = "pushed"])
                    IN IF entry.isDirectory /\ Len(pushed) < LIST_FILES_CAP
                       THEN [stack |-> Append(here, Frame(top.dir \o "/" \o entry.name,
                                                          relativePath, fs)),
                             files |-> pushed]
                       ELSE [stack |-> here, files |-> pushed]

\* await walk(fullPath): the steps of walk until the outermost call returns
RECURSIVE RunWalk(_, _, _)
RunWalk(w, fs, order) ==
    IF WalkDone(w) THEN w ELSE RunWalk(WalkStep(w, fs, order), fs, order)

\* files.join("\n")
JoinLines(lines) ==
    Concat([i \in 1..Len(lines) |-> IF i = 1 THEN lines[i] ELSE "\n" \o lines[i]],
           1, Len(lines))

\* the return of listFiles after the walk
ListResult(fullPath, w, fs) == Effect(Ok(JoinLines(w.files)), fs, {fullPath}, <<>>)

listFiles(dirPath, fs) ==
    IF ~isPathSafe(dirPath)
    THEN {Outcome(Fail("Access denied: path not allowed"), fs)}
    ELSE LET fullPath == PathResolve(PROJECT_ROOT, dirPath)
         IN IF ~DirectoryExists(fullPath, fs)
            THEN {Effect(Fail("Failed to list directory: " \o dirPath),
                         fs, {fullPath}, <<>>)}
            ELSE {ListResult(fullPath, RunWalk(StartWalk(fullPath, fs), fs, order), fs) :
                     order \in ReaddirOrders}

\* the command line searchCode passes to the shell
GrepCommand(query) ==
    "grep -r --include=\"*.ts\" --include=\"*.tsx\" --include=\"*.js\" --include=\"*.jsx\" -n \""
      \o (IF query = Undefined THEN "undefined" ELSE query) \o "\" . | head -50"

searchCode(query, fs) ==
    LET line == GrepCommand(query)
    IN {Effect(Ok("./a.ts:1:match"), fs, {}, <<line>>),
        Effect(Ok("No matches found"), fs, {}, <<line>>),
        Effect(Fail("Search failed"), fs, {}, <<line>>)}

\* the switch of executeAction: the tool function the action type selects
ExecuteSwitch(action, fs) ==
    CASE action.type = "read_file"   -> readFile(action.path, fs)
      [] action.type \in {"write_to_file", "create_file"}
                                      -> writeFile(action.path, action.content, fs)
      [] action.type = "apply_diff"  ->
             applyDiff(action.path, action.search, action.replace, fs)
      [] action.type = "run_command" -> runCommand(action.command, fs)
      [] action.type = "list_files"  ->
             listFiles(IF action.path = Undefined \/ action.path = ""
                       THEN "." ELSE action.path, fs)
      [] action.type = "search_code" -> searchCode(action.query, fs)
      [] action.type = "message"     ->
             {Outcome(IF action.content = Undefined THEN [success |-> TRUE]
                      ELSE Ok(action.content), fs)}
      [] OTHER -> {Outcome(Fail("Unknown action type: " \o action.type), fs)}

\* Variant of executeAction without the try/catch around the switch.
executeActionNoCatch(action, fs) == ExecuteSwitch(action, fs)

\* executeAction(action): the switch inside try/catch; an exception of a tool
\* function is returned as a failed result that carries its message.
executeAction(action, fs) ==
    {IF IsThrown(out)
     THEN Effect(Fail(out.thrown), out.files, out.touched, out.spawned)
     ELSE out : out \in ExecuteSwitch(action, fs)}

(***************************************************************************)
(* Chat service: tool name to action.                                      *)
(***************************************************************************)

\* The six tools of the catalog (AGENT_TOOLS).
CatalogTools ==
    {"read_file", "write_file", "edit_file", "list_files", "search_code", "run_command"}

mapToolToAction(toolName, input) ==
    CASE toolName = "read_file"   -> [type |-> "read_file", path |-> Get(input, "path")]
      [] toolName = "write_file"  -> [type |-> "write_to_file", path |-> Get(input, "path"),
                                      content |-> Get(input, "content")]
      [] toolName = "edit_file"   -> [type |-> "apply_diff", path |-> Get(input, "path"),
                                      search |-> Get(input, "search"),
                                      replace |-> Get(input, "replace")]
      [] toolName = "list_files"  -> [type |-> "list_files", path |-> Get(input, "path")]
      [] toolName = "search_code" -> [type |-> "search_code", query |-> Get(input, "query")]
      [] toolName = "run_command" -> [type |-> "run_command",
                                      command |-> Get(input, "command")]
      [] OTHER -> [type |-> "message", content |-> "Unknown tool: " \o toolName]

(***************************************************************************)
(* Model router (pickModel) and the entry of the chat service.             *)
(***************************************************************************)

TaskTypes == {"classify", "chat", "agent", "plan", "critic"}
ModelOverrides == {"auto", "haiku", "sonnet", "opus"}

MODELS ==
    [haiku  |-> "claude-haiku-4-5",
     sonnet |-> "claude-sonnet-4-5",
     opus   |-> "claude-opus-4-5"]

\* Variant of pickModel that selects by task alone.
pickModelByTaskOnly(task, override) ==
    CASE task = "classify" -> MODELS.haiku
      [] task \in {"chat", "plan", "critic"} -> MODELS.sonnet
      [] task = "agent" -> MODELS.opus
      [] OTHER -> MODELS.sonnet

pickModel(task, override) ==
    IF override # Undefined /\ override # "" /\ override # "auto"
    THEN MODELS[override]
    ELSE CASE task = "classify" -> MODELS.haiku
           [] task \in {"chat", "plan", "critic"} -> MODELS.sonnet
           [] task = "agent" -> MODELS.opus
           [] OTHER -> MODELS.sonnet

\* Variant of streamChatResponse that passes the selected model on as it is.
streamChatResponseNoRedirect(modelOverride) == pickModel("agent", modelOverride)

\* streamChatResponse(messages, res, options): the model it passes to
\* runAgentLoop, for options.modelOverride
streamChatResponse(modelOverride) ==
    LET selected == pickModel("agent", modelOverride)
    IN IF selected = MODELS.opus \/ modelOverride = "opus"
       THEN MODELS.sonnet
       ELSE selected

(***************************************************************************)
(* Chat agent loop (runAgentLoop of the chat service).                     *)
(*                                                                         *)
(* The loop is one asynchronous function; it suspends at the model         *)
(* invocation (await client.messages.create) and at every tool execution   *)
(* (await executeAction).  pc is its position:                             *)
(*   "loop"      at the while test                                         *)
(*   "invoking"  a model invocation is in flight                           *)
(*   "blocks"    in the for loop over response.content, at blockIdx        *)
(*   "executing" a tool execution is in flight                             *)
(*   "returned"  the function has returned                                 *)
(***************************************************************************)

VARIABLES
    pc,
    step,               \* let step
    fullContent,        \* let fullContent
    events,             \* const events: the metadata returned to the caller
    anthropicMessages,  \* the conversation state sent with every invocation
    response,           \* the response of the current step
    blockIdx,           \* position of the for loop in response.content (1-based)
    hasToolUse,         \* let hasToolUse
    toolResults,        \* const toolResults of the current step
    files,              \* the file system of the project
    res,                \* the messages written to the stream by res.write, in order
    returned,           \* <<>> while running, <<value>> once the function returned
    invocations,        \* history: the step number of every model invocation issued
    running,            \* history: ids of the tool calls whose execution is in flight
    executed,           \* history: ids of the tool calls executed, in completion order
    last,               \* the latest direct call of an exported function and its outcome
    ncalls,             \* number of direct calls made
    model,              \* the model parameter of runAgentLoop
    walk,               \* the listFiles call in progress: its position and call stack
    written,            \* history: file -> path and content of the latest successful
                        \*          write_file to it that no later write has touched
    projects,           \* the current project of the tool executor and the loops
                        \* that run side by side
    client,             \* useChatStream of the browser and the bytes sent to it
    orch,               \* a run of the orchestrator loop
    procs,              \* the process table of the project runner
    edits               \* edit_file calls in progress side by side

\* the variables of the direct calls of the tool executor and the model router
toolVars == <<last, ncalls, written, walk, projects, client, orch, procs, edits>>

loopVars == <<model, pc, step, fullContent, events, anthropicMessages, response, blockIdx,
              hasToolUse, toolResults, res, returned, invocations, running,
              executed, projects, client, orch, procs, edits>>

vars == <<pc, step, fullContent, events, anthropicMessages, response, blockIdx,
          hasToolUse, toolResults, files, res, returned, invocations, running,
          executed, last, ncalls, written, walk, model, projects,
          client, orch, procs, edits>>

\* ---- what the model can answer ------------------------------------------

\* Tool calls the model emits in the explored runs: a read that can succeed
\* or fail in the file system, a command the guard blocks, and a tool that
\* is not in the catalog.
ModelToolCalls ==
    {[name |-> "read_file",   input |-> [path |-> "src/a.ts"]],
     [name |-> "delete_file", input |-> [path |-> "src/a.ts"]]}

StopReasons == {"end_turn", "tool_use"}

TextBlock(s, i) ==
    [type |-> "text", text |-> "s" \o NumberToString(s) \o "b" \o NumberToString(i) \o ";"]

ToolUseBlock(s, i, call) ==
    [type |-> "tool_use",
     id |-> "toolu_" \o NumberToString(s) \o "_" \o NumberToString(i),
     name |-> call.name, input |-> call.input]

BlockChoices(s, i) ==
    {TextBlock(s, i)} \cup {ToolUseBlock(s, i, call) : call \in ModelToolCalls}

\* Every response.content of at most MaxBlocks blocks for step s.
Contents(s) ==
    UNION {{c \in [1..n -> UNION {BlockChoices(s, i) : i \in 1..n}] :
               \A i \in 1..n : c[i] \in BlockChoices(s, i)} : n \in 0..MaxBlocks}

Responses(s) == {[content |-> c, stop_reason |-> r] : c \in Contents(s), r \in StopReasons}

NoResponse == [content |-> <<>>, stop_reason |-> "none"]

\* ---- the messages written to the stream ---------------------------------

TextEvent(text) == [content |-> text, type |-> "text"]

ToolUseEvent(toolName, toolInput) ==
    [type |-> "tool_use", toolUse |-> [name |-> toolName, input |-> toolInput]]

\* Variant of ToolResultPayload that puts the whole output in the message.
ToolResultPayloadNoSlice(toolName, result) ==
    IF "output" \in DOMAIN result
    THEN [name |-> toolName, success |-> result.success, output |-> result.output]
    ELSE [name |-> toolName, success |-> result.success, error |-> result.error]

\* { name, success, output: result.output?.slice(0, 500), error: result.error }
ToolResultPayload(toolName, result) ==
    IF "output" \in DOMAIN result
    THEN [name |-> toolName, success |-> result.success,
          output |-> Slice0(result.output, OUTPUT_PREVIEW_CHARS)]
    ELSE [name |-> toolName, success |-> result.success, error |-> result.error]

ToolResultEvent(toolName, result) ==
    [type |-> "tool_result", toolResult |-> ToolResultPayload(toolName, result)]

\* events.push({type: 'tool_result', toolResult: {name, success, error}})
ToolResultMeta(toolName, result) ==
    [type |-> "tool_result",
     toolResult |-> IF "error" \in DOMAIN result
                    THEN [name |-> toolName, success |-> result.success,
                          error |-> result.error]
                    ELSE [name |-> toolName, success |-> result.success]]

\* Variant of ToolResultText that reads the error text from the wrong field
\* (result.message), so that a failure feeds "Error: undefined" to the model.
ToolResultTextLosesError(result) ==
    IF result.success
    THEN (IF "output" \in DOMAIN result /\ result.output # ""
          THEN result.output ELSE "Success")
    ELSE "Error: undefined"

\* result.success ? (result.output || "Success") : "Error: " + result.error
ToolResultText(result) ==
    IF result.success
    THEN (IF "output" \in DOMAIN result /\ result.output # ""
          THEN result.output ELSE "Success")
    ELSE "Error: " \o (IF "error" \in DOMAIN result THEN result.error ELSE "undefined")

\* Variant of DoneResponseEvent that also reports the limit-reached flag,
\* computed as after the loop.
DoneResponseEventFlagged(text, stepNow) ==
    [done |-> TRUE, fullContent |-> text, model |-> model, agentSteps |-> stepNow, type |-> "response",
     maxStepsReached |-> (stepNow >= MAX_AGENT_STEPS)]

\* the done message of a response without tool call
DoneResponseEvent(text, stepNow) ==
    [done |-> TRUE, fullContent |-> text, model |-> model, agentSteps |-> stepNow, type |-> "response"]

\* the done message of a response with stop_reason end_turn
DoneEndTurnEvent(text, stepNow) ==
    [done |-> TRUE, fullContent |-> text, model |-> model, agentSteps |-> stepNow]

\* Variant of DoneAfterLoopEvent with an off-by-one comparison for the flag.
DoneAfterLoopEventOffByOne(text, stepNow) ==
    [done |-> TRUE, fullContent |-> text, model |-> model, agentSteps |-> stepNow,
     maxStepsReached |-> (stepNow > MAX_AGENT_STEPS)]

\* the done message written after the while loop
DoneAfterLoopEvent(text, stepNow) ==
    [done |-> TRUE, fullContent |-> text, model |-> model, agentSteps |-> stepNow,
     maxStepsReached |-> (stepNow >= MAX_AGENT_STEPS)]

ErrorEvent(stepNow) == [error |-> "Agent step failed", step |-> stepNow]

\* { content: fullContent, metadata: events.length > 0 ? { events } : undefined }
ReturnValue(text, evs) ==
    IF Len(evs) > 0 THEN [content |-> text, metadata |-> [events |-> evs]]
    ELSE [content |-> text]

\* the assistant turn and the tool-result user turn pushed after a step
AssistantTurn(resp) == [role |-> "assistant", content |-> resp.content]

ToolResultTurn(trs) ==
    [role |-> "user",
     content |-> [i \in 1..Len(trs) |->
                    [type |-> "tool_result", tool_use_id |-> trs[i].tool_use_id,
                     content |-> trs[i].result]]]

\* The project directory when the run starts: with or without src/a.ts.
InitialFiles ==
    {("/app/package.json" :> "{}"),
     ("/app/package.json" :> "{}") @@ ("/app/src/a.ts" :> "export const a = 1;")}

\* messages.map(msg => ({role, content})) of the caller's history
InitialMessages == <<[role |-> "user", content |-> "fix the bug"]>>

\* no listFiles call is in progress
NoWalk == [at |-> "idle"]

\* no direct call has been made
NoCall == [call |-> "none"]

\* no browser is connected
NoClient == [pc |-> "none"]

\* no run of the orchestrator loop
NoOrchestrator == [pc |-> "none"]

\* the project runner is not in use
NoProcesses == [pc |-> "none"]

\* no edit_file calls side by side
NoEdits == [pc |-> "none"]

\* no loop has been started by a caller, no project is current
NoProjects == [current |-> Undefined, loop |-> <<>>]

\* the empty map of the write history
NoWrites == [p \in {} |-> ""]

\* ---- the loop ------------------------------------------------------------

Init ==
    /\ model = streamChatResponse(Undefined)
    /\ pc = "loop"
    /\ step = 0
    /\ fullContent = ""
    /\ events = <<>>
    /\ anthropicMessages = InitialMessages
    /\ response = NoResponse
    /\ blockIdx = 1
    /\ hasToolUse = FALSE
    /\ toolResults = <<>>
    /\ files \in InitialFiles
    /\ res = <<>>
    /\ returned = <<>>
    /\ invocations = <<>>
    /\ running = <<>>
    /\ executed = <<>>
    /\ last = NoCall
    /\ ncalls = 0
    /\ written = NoWrites
    /\ walk = NoWalk
    /\ client = NoClient
    /\ orch = NoOrchestrator
    /\ procs = NoProcesses
    /\ edits = NoEdits
    /\ projects = NoProjects

\* Variant of LoopTest that lets one more step through.
LoopTestOneMore(stepNow) == stepNow <= MAX_AGENT_STEPS

\* while (step < MAX_AGENT_STEPS)
LoopTest(stepNow) == stepNow < MAX_AGENT_STEPS

\* while test true: step++ and client.messages.create is issued
Invoke ==
    /\ pc = "loop"
    /\ LoopTest(step)
    /\ step' = step + 1
    /\ invocations' = Append(invocations, step + 1)
    /\ pc' = "invoking"
    /\ UNCHANGED <<toolVars, model, files, fullContent, events, anthropicMessages, response, blockIdx,
                   hasToolUse, toolResults, res, returned, running, executed>>

\* while test false: the done message after the loop, and return
ExitLoop ==
    /\ pc = "loop"
    /\ ~LoopTest(step)
    /\ res' = Append(res, DoneAfterLoopEvent(fullContent, step))
    /\ returned' = <<ReturnValue(fullContent, events)>>
    /\ pc' = "returned"
    /\ UNCHANGED <<toolVars, model, files, step, fullContent, events, anthropicMessages, response, blockIdx,
                   hasToolUse, toolResults, invocations, running, executed>>

\* the invocation returns a response; the for loop over its blocks starts
ModelResponds ==
    /\ pc = "invoking"
    /\ \E r \in Responses(step) : response' = r
    /\ blockIdx' = 1
    /\ hasToolUse' = FALSE
    /\ toolResults' = <<>>
    /\ pc' = "blocks"
    /\ UNCHANGED <<toolVars, model, files, step, fullContent, events, anthropicMessages, res, returned,
                   invocations, running, executed>>

\* Variant of ModelThrows whose catch block does not break: the error
\* message is written and the while loop goes round (a retry).
ModelThrowsRetry ==
    /\ pc = "invoking"
    /\ res' = Append(res, ErrorEvent(step))
    /\ pc' = "loop"
    /\ UNCHANGED <<toolVars, model, files, step, fullContent, events, anthropicMessages, response,
                   blockIdx, hasToolUse, toolResults, returned, invocations, running,
                   executed>>

\* the invocation throws: catch writes the error message and breaks, the
\* statements after the loop write the done message and return
ModelThrows ==
    /\ pc = "invoking"
    /\ res' = res \o <<ErrorEvent(step), DoneAfterLoopEvent(fullContent, step)>>
    /\ returned' = <<ReturnValue(fullContent, events)>>
    /\ pc' = "returned"
    /\ UNCHANGED <<toolVars, model, files, step, fullContent, events, anthropicMessages, response, blockIdx,
                   hasToolUse, toolResults, invocations, running, executed>>

AtBlock == pc = "blocks" /\ blockIdx <= Len(response.content)

\* Variant of TextStep that keeps only the text of the latest block in
\* fullContent.
TextStepOverwrites ==
    /\ AtBlock
    /\ response.content[blockIdx].type = "text"
    /\ res' = Append(res, TextEvent(response.content[blockIdx].text))
    /\ fullContent' = response.content[blockIdx].text
    /\ blockIdx' = blockIdx + 1
    /\ UNCHANGED <<toolVars, model, files, pc, step, events, anthropicMessages, response, hasToolUse,
                   toolResults, returned, invocations, running, executed>>

\* block.type === "text"
TextStep ==
    /\ AtBlock
    /\ response.content[blockIdx].type = "text"
    /\ res' = Append(res, TextEvent(response.content[blockIdx].text))
    /\ fullContent' = fullContent \o response.content[blockIdx].text
    /\ blockIdx' = blockIdx + 1
    /\ UNCHANGED <<toolVars, model, files, pc, step, events, anthropicMessages, response, hasToolUse,
                   toolResults, returned, invocations, running, executed>>

\* Variant of ToolStart that does not await executeAction: the execution is
\* started and the for loop moves on to the next block.
ToolStartNoAwait ==
    /\ AtBlock
    /\ response.content[blockIdx].type = "tool_use"
    /\ LET block == response.content[blockIdx]
           ev    == ToolUseEvent(block.name, block.input)
       IN /\ hasToolUse' = TRUE
          /\ res' = Append(res, ev)
          /\ events' = Append(events, ev)
          /\ running' = Append(running, block.id)
    /\ blockIdx' = blockIdx + 1
    /\ UNCHANGED <<toolVars, model, files, pc, step, fullContent, anthropicMessages, response,
                   toolResults, returned, invocations, executed>>

\* block.type === "tool_use", up to the await of executeAction
ToolStart ==
    /\ AtBlock
    /\ response.content[blockIdx].type = "tool_use"
    /\ LET block == response.content[blockIdx]
           ev    == ToolUseEvent(block.name, block.input)
       IN /\ hasToolUse' = TRUE
          /\ res' = Append(res, ev)
          /\ events' = Append(events, ev)
          /\ running' = Append(running, block.id)
    /\ pc' = "executing"
    /\ UNCHANGED <<toolVars, model, files, step, fullContent, anthropicMessages, response, blockIdx,
                   toolResults, returned, invocations, executed>>

\* Variant of ToolFinish that writes the tool_result message only for a
\* successful result.
ToolFinishSilentFailure ==
    /\ pc = "executing"
    /\ LET block  == response.content[blockIdx]
           action == mapToolToAction(block.name, block.input)
       IN \E out \in executeAction(action, files) :
            /\ files' = out.files
            /\ res' = IF out.result.success
                      THEN Append(res, ToolResultEvent(block.name, out.result))
                      ELSE res
            /\ events' = Append(events, ToolResultMeta(block.name, out.result))
            /\ toolResults' = Append(toolResults,
                                     [tool_use_id |-> block.id,
                                      result |-> ToolResultText(out.result)])
            /\ running' = SelectSeq(running, LAMBDA id : id # block.id)
            /\ executed' = Append(executed, block.id)
    /\ blockIdx' = blockIdx + 1
    /\ pc' = "blocks"
    /\ UNCHANGED <<toolVars, model, step, fullContent, anthropicMessages, response, hasToolUse,
                   returned, invocations>>

\* executeAction returns: the tool_result message, the metadata event and the
\* entry of toolResults; the for loop moves to the next block
ToolFinish ==
    /\ pc = "executing"
    /\ LET block  == response.content[blockIdx]
           action == mapToolToAction(block.name, block.input)
       IN \E out \in executeAction(action, files) :
            /\ files' = out.files
            /\ res' = Append(res, ToolResultEvent(block.name, out.result))
            /\ events' = Append(events, ToolResultMeta(block.name, out.result))
            /\ toolResults' = Append(toolResults,
                                     [tool_use_id |-> block.id,
                                      result |-> ToolResultText(out.result)])
            /\ running' = SelectSeq(running, LAMBDA id : id # block.id)
            /\ executed' = Append(executed, block.id)
    /\ blockIdx' = blockIdx + 1
    /\ pc' = "blocks"
    /\ UNCHANGED <<toolVars, model, step, fullContent, anthropicMessages, response, hasToolUse,
                   returned, invocations>>

AfterBlocks == pc = "blocks" /\ blockIdx > Len(response.content)

\* if (!hasToolUse): done message and return
Complete ==
    /\ AfterBlocks
    /\ ~hasToolUse
    /\ res' = Append(res, DoneResponseEvent(fullContent, step))
    /\ returned' = <<ReturnValue(fullContent, events)>>
    /\ pc' = "returned"
    /\ UNCHANGED <<toolVars, model, files, step, fullContent, events, anthropicMessages, response, blockIdx,
                   hasToolUse, toolResults, invocations, running, executed>>

\* response.stop_reason === "end_turn"
EndsTurn(resp) == resp.stop_reason = "end_turn"

\* the response had a tool call: both turns are pushed; with stop_reason
\* end_turn the done message is written and the function returns
CompleteEndTurn ==
    /\ AfterBlocks
    /\ hasToolUse
    /\ EndsTurn(response)
    /\ anthropicMessages' = anthropicMessages
                              \o <<AssistantTurn(response), ToolResultTurn(toolResults)>>
    /\ res' = Append(res, DoneEndTurnEvent(fullContent, step))
    /\ returned' = <<ReturnValue(fullContent, events)>>
    /\ pc' = "returned"
    /\ UNCHANGED <<toolVars, model, files, step, fullContent, events, response, blockIdx, hasToolUse,
                   toolResults, invocations, running, executed>>

\* Variant of Continue that pushes the assistant turn only and drops the
\* tool results of the step.
ContinueDropsToolResults ==
    /\ AfterBlocks
    /\ hasToolUse
    /\ ~EndsTurn(response)
    /\ anthropicMessages' = Append(anthropicMessages, AssistantTurn(response))
    /\ pc' = "loop"
    /\ UNCHANGED <<toolVars, model, files, step, fullContent, events, response, blockIdx, hasToolUse,
                   toolResults, res, returned, invocations, running, executed>>

\* Variant of Continue that starts the conversation state again from the two
\* turns of the step.
ContinueRestartsHistory ==
    /\ AfterBlocks
    /\ hasToolUse
    /\ ~EndsTurn(response)
    /\ anthropicMessages' = <<AssistantTurn(response), ToolResultTurn(toolResults)>>
    /\ pc' = "loop"
    /\ UNCHANGED <<toolVars, model, files, step, fullContent, events, response, blockIdx, hasToolUse,
                   toolResults, res, returned, invocations, running, executed>>

\* the response had a tool call: both turns are pushed and the while loop
\* goes round
Continue ==
    /\ AfterBlocks
    /\ hasToolUse
    /\ ~EndsTurn(response)
    /\ anthropicMessages' = anthropicMessages
                              \o <<AssistantTurn(response), ToolResultTurn(toolResults)>>
    /\ pc' = "loop"
    /\ UNCHANGED <<toolVars, model, files, step, fullContent, events, response, blockIdx, hasToolUse,
                   toolResults, res, returned, invocations, running, executed>>

Next ==
    \/ Invoke
    \/ ExitLoop
    \/ ModelResponds
    \/ ModelThrows
    \/ TextStep
    \/ ToolStart
    \/ ToolFinish
    \/ Complete
    \/ CompleteEndTurn
    \/ Continue

Spec == Init /\ [][Next]_vars

(***************************************************************************)
(* Vocabulary of the properties of the chat agent loop.                    *)
(***************************************************************************)

Last(seq) == seq[Len(seq)]

IsDone(e)       == "done" \in DOMAIN e
IsError(e)      == "error" \in DOMAIN e
IsTerminal(e)   == IsDone(e) \/ IsError(e)
IsText(e)       == ~IsTerminal(e) /\ e.type = "text"
IsToolUse(e)    == ~IsTerminal(e) /\ e.type = "tool_use"
IsToolResult(e) == ~IsTerminal(e) /\ e.type = "tool_result"

\* the limit-reached flag of a message is set to true
FlagTrue(e) == "maxStepsReached" \in DOMAIN e /\ e.maxStepsReached

HasToolCall(resp) == \E i \in DOMAIN resp.content : resp.content[i].type = "tool_use"

\* a model invocation of the run has thrown
RunFailed == \E i \in DOMAIN res : IsError(res[i])

\* how a run that has returned ended
EndedCompleted == pc = "returned" /\ ~RunFailed /\ response # NoResponse
                    /\ ~HasToolCall(response)
EndedEndTurn   == pc = "returned" /\ ~RunFailed /\ HasToolCall(response)
                    /\ response.stop_reason = "end_turn"
\* the step counter reached the maximum while the model still requested tools
EndedAtLimit   == pc = "returned" /\ ~RunFailed /\ HasToolCall(response)
                    /\ response.stop_reason # "end_turn"

RECURSIVE ConcatTexts(_)
\* the text of the text messages of a stream, concatenated in order
ConcatTexts(stream) ==
    IF stream = <<>> THEN ""
    ELSE (IF IsText(Head(stream)) THEN Head(stream).content ELSE "")
           \o ConcatTexts(Tail(stream))

\* the assistant turns appended to the conversation state: the responses of
\* the earlier steps that contained a tool call
AssistantTurns == SelectSeq(anthropicMessages, LAMBDA m : m.role = "assistant")

(***************************************************************************)
(* Properties.                                                             *)
(***************************************************************************)

\* C1: once a done or an error message has been written to the stream, the
\* run writes no further message: a terminal message is the last message of
\* the stream, in all three endings.
C1_TerminalEventIsLast ==
    \A i \in DOMAIN res : IsTerminal(res[i]) => i = Len(res)

\* C2: the final message of a run carries the limit-reached flag set to true
\* if and only if the run stopped because the step counter reached the
\* maximum while the model was still requesting tools; a run that ended on a
\* failed invocation or on a response without tool call never reports true.
C2_FlagIffStepLimit ==
    pc = "returned" => (FlagTrue(Last(res)) <=> EndedAtLimit)

\* C3: when the first response without tool call is the k-th response of a
\* run, the run ends after exactly k model invocations with a done message
\* that reports step count k and whose limit-reached flag is not set; this
\* includes k = 1 and k = MAX_AGENT_STEPS.
C3_CompletedAtK ==
    EndedCompleted =>
        LET k == Len(AssistantTurns) + 1
        IN /\ invocations = [i \in 1..k |-> i]
           /\ IsDone(Last(res))
           /\ Last(res).agentSteps = k
           /\ ~FlagTrue(Last(res))
           /\ \A i \in 1..(Len(res) - 1) : ~IsTerminal(res[i])

C3_Witness ==
    /\ EndedCompleted
    /\ Len(invocations) = MAX_AGENT_STEPS
    /\ MAX_AGENT_STEPS > 1

ToolStepDone == pc = "blocks" /\ blockIdx > Len(response.content) /\ hasToolUse

\* the exchange of the current step is appended and the loop goes round
ExchangeAppended ==
    /\ anthropicMessages' =
          anthropicMessages \o <<AssistantTurn(response), ToolResultTurn(toolResults)>>
    /\ pc' = "loop"
    /\ res' = res
    /\ returned' = <<>>

\* at the while test below the maximum, another invocation is issued with
\* the conversation state as it stands
AnotherInvocation ==
    (pc = "loop" /\ step < MAX_AGENT_STEPS)
    => (/\ pc' = "invoking"
        /\ invocations' = Append(invocations, step + 1)
        /\ anthropicMessages' = anthropicMessages)

NextMarker(i) ==
    IF \E j \in (i + 1)..Len(res) :
          IsToolUse(res[j]) \/ IsToolResult(res[j]) \/ IsTerminal(res[j])
    THEN CHOOSE j \in (i + 1)..Len(res) :
            /\ IsToolUse(res[j]) \/ IsToolResult(res[j]) \/ IsTerminal(res[j])
            /\ \A k \in (i + 1)..(j - 1) :
                  ~(IsToolUse(res[k]) \/ IsToolResult(res[k]) \/ IsTerminal(res[k]))
    ELSE 0

PrevMarker(j) ==
    IF \E i \in 1..(j - 1) :
          IsToolUse(res[i]) \/ IsToolResult(res[i]) \/ IsTerminal(res[i])
    THEN CHOOSE i \in 1..(j - 1) :
            /\ IsToolUse(res[i]) \/ IsToolResult(res[i]) \/ IsTerminal(res[i])
            /\ \A k \in (i + 1)..(j - 1) :
                  ~(IsToolUse(res[k]) \/ IsToolResult(res[k]) \/ IsTerminal(res[k]))
    ELSE 0

\* C6: every tool_use message of the stream is followed by exactly one
\* tool_result message for the same tool name, written before the next
\* tool_use, before the next model invocation and before any terminal
\* message; no tool_result is written without a preceding unmatched tool_use.
C6_ToolUseResultPairing ==
    /\ \A i \in DOMAIN res :
          IsToolUse(res[i]) =>
             LET j == NextMarker(i)
             IN IF j = 0
                THEN pc = "executing"
                ELSE /\ IsToolResult(res[j])
                     /\ res[j].toolResult.name = res[i].toolUse.name
    /\ \A j \in DOMAIN res :
          IsToolResult(res[j]) =>
             LET i == PrevMarker(j)
             IN /\ i # 0
                /\ IsToolUse(res[i])
                /\ res[i].toolUse.name = res[j].toolResult.name
    /\ pc = "executing" => (res # <<>> /\ IsToolUse(Last(res)))

C6_Witness ==
    /\ pc = "returned"
    /\ \E i, j \in DOMAIN res :
          /\ i < j
          /\ IsToolUse(res[i]) /\ IsToolUse(res[j])
          /\ res[i].toolUse.name # res[j].toolUse.name
          /\ ~res[i + 1].toolResult.success

RECURSIVE ToolIdsOfBlocks(_)
ToolIdsOfBlocks(blocks) ==
    IF blocks = <<>> THEN <<>>
    ELSE (IF Head(blocks).type = "tool_use" THEN <<Head(blocks).id>> ELSE <<>>)
           \o ToolIdsOfBlocks(Tail(blocks))

RECURSIVE ToolIdsOfTurns(_)
ToolIdsOfTurns(turns) ==
    IF turns = <<>> THEN <<>>
    ELSE ToolIdsOfBlocks(Head(turns).content) \o ToolIdsOfTurns(Tail(turns))

\* the ids of the tool calls the model has emitted so far, in emission order:
\* those of the appended assistant turns, then those of a response whose
\* blocks are being processed
EmittedToolIds ==
    ToolIdsOfTurns(AssistantTurns)
      \o (IF pc \in {"blocks", "executing"} THEN ToolIdsOfBlocks(response.content)
          ELSE <<>>)

IsPrefix(a, b) == Len(a) <= Len(b) /\ SubSeq(b, 1, Len(a)) = a

\* C7: the tool calls of a response are executed one at a time in emission
\* order: at most one execution is in flight, the calls completed so far
\* followed by the one in flight are a prefix of the calls emitted, and no
\* model invocation is in flight or issued while a tool call is in flight.
C7_SequentialToolExecution ==
    /\ Len(running) <= 1
    /\ IsPrefix(executed \o running, EmittedToolIds)
    /\ pc \in {"loop", "invoking", "returned"} => running = <<>>
    /\ pc = "executing" => running = <<response.content[blockIdx].id>>

C7_Witness ==
    /\ pc = "executing"
    /\ blockIdx = 2
    /\ Len(executed) >= 1
    /\ response.content[1].type = "tool_use"

\* C8: when a model invocation throws, the run makes no further model
\* invocation and executes no further tool, writes an error message that
\* carries the step number, and returns the text accumulated before the
\* failure to its caller.
C8_FailureEndsRun ==
    RunFailed =>
        LET i == CHOOSE j \in DOMAIN res : IsError(res[j])
        IN /\ pc = "returned"
           /\ running = <<>>
           /\ \A j \in DOMAIN res : IsError(res[j]) => j = i
           /\ res[i].step = Len(invocations)
           /\ \A j \in (i + 1)..Len(res) : ~IsToolUse(res[j]) /\ ~IsToolResult(res[j])
           /\ Len(returned) = 1
           /\ returned[1].content = ConcatTexts(res)
           /\ Len(executed) = Len(SelectSeq(res, IsToolResult))

C8_Witness ==
    /\ RunFailed
    /\ Len(invocations) > 1
    /\ returned[1].content # ""

\* C9: a tool call that ends with a failed ToolResult never ends the run and
\* never produces an error message: the step that receives the result writes
\* one tool_result message with success = false, puts "Error: " and the error
\* text into the tool results of the step, and goes on with the next block;
\* the tool-result turn appended after the step carries that text into the
\* next model invocation.
C9_ToolFailureIsData ==
    [][/\ pc = "executing" =>
            /\ pc' = "blocks"
            /\ blockIdx' = blockIdx + 1
            /\ returned' = <<>>
            /\ Len(res') = Len(res) + 1
            /\ IsToolResult(Last(res'))
            /\ Len(toolResults') = Len(toolResults) + 1
            /\ ~Last(res').toolResult.success =>
                  /\ "error" \in DOMAIN Last(res').toolResult
                  /\ Last(toolResults').result = "Error: " \o Last(res').toolResult.error
       /\ (ToolStepDone /\ response.stop_reason # "end_turn") =>
            /\ pc' = "loop"
            /\ Len(Last(anthropicMessages').content) = Len(toolResults)
            /\ \A i \in DOMAIN toolResults :
                  Last(anthropicMessages').content[i].content = toolResults[i].result
       /\ AnotherInvocation]_vars

C9_Witness ==
    /\ pc = "invoking"
    /\ step = 2
    /\ \E i \in DOMAIN res : IsToolResult(res[i]) /\ ~res[i].toolResult.success
    /\ \E i \in DOMAIN Last(anthropicMessages).content :
          Last(anthropicMessages).content[i].content = "Error: File not found: src/a.ts"

\* C10: a tool call whose name is not one of the six catalog tools yields a
\* failure result (success = false), both in the tool_result message and in
\* the result fed back to the model, and no exception reaches the loop.
C10_UnknownToolFails ==
    /\ \A i \in DOMAIN res :
          (IsToolResult(res[i]) /\ res[i].toolResult.name \notin CatalogTools)
             => ~res[i].toolResult.success
    /\ \A i \in DOMAIN toolResults :
          (\E b \in DOMAIN response.content :
              /\ response.content[b].type = "tool_use"
              /\ response.content[b].id = toolResults[i].tool_use_id
              /\ response.content[b].name \notin CatalogTools)
             => StartsWith(toolResults[i].result, "Error: ")

(***************************************************************************)
(* Direct calls of the exported functions.                                 *)
(*                                                                         *)
(* executeAction (tool executor) and pickModel (model router) are called   *)
(* one after the other, with any arguments a caller can pass; executeAction*)
(* works on the file system left by the calls before it.                   *)
(***************************************************************************)

\* number of direct calls in one behaviour
MaxCalls == 2

RECURSIVE Repeat(_, _)
Repeat(s, n) == IF n = 0 THEN "" ELSE s \o Repeat(s, n - 1)

\* a source file of 60 lines
LongContent == Repeat("x\n", 60)

\* The disk when the calls start: the project under PROJECT_ROOT, a sibling
\* directory whose name starts with the root's name, and a system file.
CallsInitialFiles ==
    ("/app/package.json" :> "{}")
      @@ ("/app/src/a.ts" :> "let x = 1; let x = 1;")
      @@ ("/app/src/long.ts" :> LongContent)
      @@ ("/app2/x.ts" :> "sibling")
      @@ ("/etc/passwd" :> "root:x:0:0")

\* values of action.path
CallPaths ==
    {"src/a.ts", "./src/a.ts", "src/b.ts", "/app/src/a.ts", "../app2/x.ts",
     "/app2/x.ts", "../etc/passwd", "/etc/passwd", "src/../../etc/passwd",
     ".env", "src/run.exe", Undefined}

\* values of action.content
CallContents == {"new", "a\n^~", "x^", Undefined}

\* values of (action.path, action.search, action.replace) of apply_diff
CallDiffs ==
    {<<"src/a.ts", "let x = 1;", "let y = 2;">>,
     <<"src/a.ts", "let z", "let y">>,
     <<"src/a.ts", "x", "a\nb">>,
     <<"src/a.ts", "x", "$&y">>,
     <<"src/a.ts", "1", "$$5">>,
     <<"src/a.ts", Undefined, "y">>,
     <<"src/a.ts", "x", Undefined>>,
     <<"src/b.ts", "new", "old">>,
     <<"../app2/x.ts", "sibling", "changed">>,
     <<"/etc/passwd", "root", "user">>,
     <<Undefined, "x", "y">>,
     <<"src/long.ts", Repeat("x\n", MAX_DELETE_LINES), "y">>,
     <<"src/long.ts", Repeat("x\n", MAX_DELETE_LINES + 1), "y">>,
     <<"src/long.ts", Repeat("x\n", MAX_DELETE_LINES + 1), "y\nz">>,
     <<"src/long.ts", Repeat("x\n", MAX_DELETE_LINES + 2), "y">>}

\* values of action.command
CallCommands ==
    {"ls", "npm test", "sudo rm -rf /", "SUDO ls", "Rm -Rf /", "echo hi > /dev/sda",
     Undefined}

\* values of action.query
CallQueries ==
    {"useState", "x\" . ; sudo rm -rf / ; echo \"", "$(shutdown now)", Undefined}

\* values of action.type outside the switch
CallUnknownTypes == {"delete_file", ""}

\* the actions a caller can pass to executeAction
ReadActions  == {[type |-> "read_file", path |-> p] : p \in CallPaths}
WriteActions ==
    {[type |-> t, path |-> p, content |-> c] :
        t \in {"write_to_file", "create_file"}, p \in CallPaths, c \in CallContents}
DiffActions  ==
    {[type |-> "apply_diff", path |-> d[1], search |-> d[2], replace |-> d[3]] :
        d \in CallDiffs}
CommandActions == {[type |-> "run_command", command |-> c] : c \in CallCommands}
ListActions  == {[type |-> "list_files", path |-> p] : p \in CallPaths \cup {"."}}
SearchActions == {[type |-> "search_code", query |-> q] : q \in CallQueries}
MessageActions == {[type |-> "message", content |-> c] : c \in CallContents}
UnknownActions == {[type |-> t] : t \in CallUnknownTypes}

\* The write history after a call: a successful write_file records its
\* content under the file it wrote, a successful edit of a file forgets it.
WrittenAfter(w, action, out) ==
    IF IsThrown(out) \/ ~out.result.success THEN w
    ELSE IF action.type \in {"write_to_file", "create_file"}
    THEN [p \in DOMAIN w \cup out.touched |->
             IF p \in out.touched
             THEN [path |-> action.path, content |-> action.content] ELSE w[p]]
    ELSE IF action.type = "apply_diff"
    THEN [p \in DOMAIN w \ out.touched |-> w[p]]
    ELSE w

InitCalls ==
    /\ model = streamChatResponse(Undefined)
    /\ pc = "returned"
    /\ step = 0
    /\ fullContent = ""
    /\ events = <<>>
    /\ anthropicMessages = <<>>
    /\ response = NoResponse
    /\ blockIdx = 1
    /\ hasToolUse = FALSE
    /\ toolResults = <<>>
    /\ files = CallsInitialFiles
    /\ res = <<>>
    /\ returned = <<>>
    /\ invocations = <<>>
    /\ running = <<>>
    /\ executed = <<>>
    /\ last = NoCall
    /\ ncalls = 0
    /\ written = NoWrites
    /\ walk = NoWalk
    /\ client = NoClient
    /\ orch = NoOrchestrator
    /\ procs = NoProcesses
    /\ edits = NoEdits
    /\ projects = NoProjects

\* await executeAction(action) by a caller
Call(action) ==
    /\ ncalls < MaxCalls
    /\ \E out \in executeAction(action, files) :
          /\ last' = [call |-> "executeAction", action |-> action,
                      before |-> files, out |-> out]
          /\ files' = out.files
          /\ written' = WrittenAfter(written, action, out)
    /\ ncalls' = ncalls + 1
    /\ UNCHANGED <<loopVars, walk>>

CallReadFile    == \E action \in ReadActions : Call(action)
CallWriteFile   == \E action \in WriteActions : Call(action)
CallApplyDiff   == \E action \in DiffActions : Call(action)
CallRunCommand  == \E action \in CommandActions : Call(action)
CallListFiles   == \E action \in ListActions : Call(action)
CallSearchCode  == \E action \in SearchActions : Call(action)
CallMessage     == \E action \in MessageActions : Call(action)
CallUnknownType == \E action \in UnknownActions : Call(action)

\* pickModel(task, override) by a caller; override is optional
CallPickModel ==
    /\ ncalls < MaxCalls
    /\ \E task \in TaskTypes, override \in ModelOverrides \cup {Undefined} :
          last' = [call |-> "pickModel", task |-> task, override |-> override,
                   out |-> pickModel(task, override)]
    /\ ncalls' = ncalls + 1
    /\ UNCHANGED <<loopVars, files, written, walk>>

NextCalls ==
    \/ CallReadFile
    \/ CallWriteFile
    \/ CallApplyDiff
    \/ CallRunCommand
    \/ CallListFiles
    \/ CallSearchCode
    \/ CallMessage
    \/ CallUnknownType
    \/ CallPickModel

SpecCalls == InitCalls /\ [][NextCalls]_vars

(***************************************************************************)
(* listFiles on large directory trees, one step of the walk at a time.     *)
(***************************************************************************)

\* the largest number of top-level files above the cap
MaxOver == 1

\* the largest nesting depth of the directories
MaxListDepth == 2

\* A project with top files in the root and dirs directories d1, d2, ...,
\* each a chain of depth nested directories that hold perDir files each;
\* besides, a dependency directory and a file whose name holds ".env".
ListTree(top, dirs, depth, perDir) ==
    LET keys ==
          {"/app/f" \o NumberToString(i) \o ".ts" : i \in 1..top}
            \cup {"/app/d" \o NumberToString(j) \o Repeat("/s", k)
                     \o "/f" \o NumberToString(i) \o ".ts" :
                     j \in 1..dirs, k \in 0..(depth - 1), i \in 1..perDir}
            \cup {"/app/node_modules/pkg/index.js", "/app/my.env.ts"}
    IN [p \in keys |-> ""]

\* the projects listed: below the cap, at the cap and above it
ListTrees ==
    {ListTree(top, dirs, depth, perDir) :
        top \in {0, 7} \cup ((LIST_FILES_CAP - 1)..(LIST_FILES_CAP + MaxOver)),
        dirs \in {0, 4}, depth \in 1..MaxListDepth, perDir \in {24, 25}}

\* values of dirPath
ListPaths == {".", "d1", "d9", "node_modules", "secrets-ui"}

InitList ==
    /\ model = streamChatResponse(Undefined)
    /\ pc = "returned"
    /\ step = 0
    /\ fullContent = ""
    /\ events = <<>>
    /\ anthropicMessages = <<>>
    /\ response = NoResponse
    /\ blockIdx = 1
    /\ hasToolUse = FALSE
    /\ toolResults = <<>>
    /\ files \in ListTrees
    /\ res = <<>>
    /\ returned = <<>>
    /\ invocations = <<>>
    /\ running = <<>>
    /\ executed = <<>>
    /\ last = NoCall
    /\ ncalls = 0
    /\ written = NoWrites
    /\ walk = NoWalk
    /\ client = NoClient
    /\ orch = NoOrchestrator
    /\ procs = NoProcesses
    /\ edits = NoEdits
    /\ projects = NoProjects

\* listFiles(dirPath) returns without a walk: the guard refuses the path, or
\* readdir throws on the directory
ListRefused ==
    /\ walk.at = "idle"
    /\ \E dirPath \in ListPaths :
          /\ ~isPathSafe(dirPath)
                \/ ~DirectoryExists(PathResolve(PROJECT_ROOT, dirPath), files)
          /\ \E out \in listFiles(dirPath, files) :
                last' = [call |-> "listFiles", dirPath |-> dirPath, out |-> out]
          /\ walk' = [at |-> "done", dirPath |-> dirPath]
    /\ UNCHANGED <<loopVars, files, ncalls, written>>

\* listFiles(dirPath) passes the guard and calls walk(fullPath)
ListStart ==
    /\ walk.at = "idle"
    /\ \E dirPath \in ListPaths, order \in ReaddirOrders :
          /\ isPathSafe(dirPath)
          /\ DirectoryExists(PathResolve(PROJECT_ROOT, dirPath), files)
          /\ walk' = [at |-> "walking", dirPath |-> dirPath, order |-> order,
                      w |-> StartWalk(PathResolve(PROJECT_ROOT, dirPath), files)]
    /\ UNCHANGED <<loopVars, files, last, ncalls, written>>

\* one step of walk
ListStep ==
    /\ walk.at = "walking"
    /\ ~WalkDone(walk.w)
    /\ walk' = [walk EXCEPT !.w = WalkStep(walk.w, files, walk.order)]
    /\ UNCHANGED <<loopVars, files, last, ncalls, written>>

\* walk(fullPath) has returned: listFiles returns the joined entries
ListFinish ==
    /\ walk.at = "walking"
    /\ WalkDone(walk.w)
    /\ last' = [call |-> "listFiles", dirPath |-> walk.dirPath,
                out |-> ListResult(PathResolve(PROJECT_ROOT, walk.dirPath),
                                   walk.w, files)]
    /\ walk' = [walk EXCEPT !.at = "done"]
    /\ UNCHANGED <<loopVars, files, ncalls, written>>

NextList ==
    \/ ListRefused
    \/ ListStart
    \/ ListStep
    \/ ListFinish

SpecList == InitList /\ [][NextList]_vars

\* ---- vocabulary of the properties of direct calls --------------------------

IsToolCall == last.call = "executeAction"

IsCallOf(types) == IsToolCall /\ last.action.type \in types

Returned == IsToolCall /\ "result" \in DOMAIN last.out

\* a field the tool function of the action needs is missing from the action
MissingField ==
    \/ /\ last.action.type \in {"read_file", "write_to_file", "create_file", "apply_diff"}
       /\ last.action.path = Undefined
    \/ /\ last.action.type \in {"write_to_file", "create_file"}
       /\ last.action.content = Undefined
    \/ /\ last.action.type = "apply_diff"
       /\ (last.action.search = Undefined \/ last.action.replace = Undefined)
    \/ /\ last.action.type = "run_command"
       /\ last.action.command = Undefined

\* C11: executeAction never throws: for every action, of any type and with
\* any fields missing, the call returns a ToolResult; a failed result carries
\* a non-empty error string, and an action whose tool function lacks a field
\* it needs (path, content, search, replace, command) yields a failed result
\* and leaves the disk as it was.
C11_ExecuteActionNeverThrows ==
    IsToolCall =>
       /\ "result" \in DOMAIN last.out
       /\ "thrown" \notin DOMAIN last.out
       /\ last.out.result.success \in BOOLEAN
       /\ ~last.out.result.success =>
             /\ "error" \in DOMAIN last.out.result
             /\ Len(last.out.result.error) > 0
       /\ MissingField =>
             /\ ~last.out.result.success
             /\ files = last.before

C11_Witness ==
    /\ IsCallOf({"run_command"})
    /\ last.action.command = Undefined
    /\ Returned
    /\ ~last.out.result.success
    /\ last.out.result.error = TypeErrorMessage

\* an absolute path that is the project root or lies beneath it
InsideRoot(abs) == abs = PROJECT_ROOT \/ StartsWith(abs, PROJECT_ROOT \o "/")

PathTools == {"read_file", "write_to_file", "create_file", "apply_diff", "list_files"}

\* C12: for every path that resolves outside the project root (by ../, as an
\* absolute path, or into a sibling directory whose name starts with the
\* root's name) isPathSafe returns false, and no path-taking tool reads or
\* writes a file outside the root.
C12_NoAccessOutsideRoot ==
    (IsCallOf(PathTools) /\ last.action.path # Undefined) =>
       /\ ~InsideRoot(PathResolve(PROJECT_ROOT, last.action.path))
             => ~isPathSafe(last.action.path)
       /\ \A p \in last.out.touched : InsideRoot(p)
       /\ \A p \in DOMAIN files :
             ~InsideRoot(p) => (p \in DOMAIN last.before /\ files[p] = last.before[p])

\* the text contains a deny-listed substring, in any letter case
DenyListed(text) ==
    \E blocked \in blockedCommands :
       \E i \in 1..(Len(text) - Len(blocked) + 1) :
          ToLowerCase(SubSeq(text, i, i + Len(blocked) - 1)) = ToLowerCase(blocked)

\* C13: run_command with a command that contains a deny-listed substring in
\* any letter case spawns no process and returns a failed result.
C13_DenyListedCommandNotSpawned ==
    (IsCallOf({"run_command"}) /\ last.action.command # Undefined
       /\ DenyListed(last.action.command)) =>
          /\ last.out.spawned = <<>>
          /\ ~last.out.result.success
          /\ files = last.before

C13_Witness ==
    /\ IsCallOf({"run_command"})
    /\ last.action.command = "SUDO ls"
    /\ last.out.spawned = <<>>
    /\ last.out.result = Fail("Command blocked for security reasons")

\* C14: every tool passes its path, query or command through the guard before
\* it touches a file or spawns a process, so that no command line holding a
\* deny-listed substring is executed by any tool call, and no tool call with
\* a path the guard rejects touches a file.
C14_GuardBeforeEveryEffect ==
    IsToolCall =>
       /\ \A i \in DOMAIN last.out.spawned : ~DenyListed(last.out.spawned[i])
       /\ (IsCallOf(PathTools) /\ last.action.path # Undefined
             /\ ~isPathSafe(last.action.path)) => last.out.touched = {}

\* the file an edit_file call addresses exists and the guard accepts its path
EditsExistingFile ==
    /\ IsCallOf({"apply_diff"})
    /\ last.action.path # Undefined
    /\ isPathSafe(last.action.path)
    /\ PathResolve(PROJECT_ROOT, last.action.path) \in DOMAIN last.before
    /\ last.action.search # Undefined
    /\ last.action.replace # Undefined

\* content of the file an edit_file call addresses, before and after the call
ContentBefore == Utf8Decode(last.before[PathResolve(PROJECT_ROOT, last.action.path)])
ContentAfter  == Utf8Decode(files[PathResolve(PROJECT_ROOT, last.action.path)])

\* C15: edit_file on an existing file whose content does not contain the
\* search string returns a failed result whose error says so, and leaves the
\* file (and every other file) unchanged.
C15_AbsentSearchFails ==
    (EditsExistingFile /\ ~Includes(ContentBefore, last.action.search)) =>
       /\ last.out.result = Fail("Search string not found in file")
       /\ files = last.before

C15_Witness ==
    /\ EditsExistingFile
    /\ last.action.path = "src/a.ts"
    /\ last.action.search = "let z"
    /\ ~last.out.result.success
    /\ ContentAfter = "let x = 1; let x = 1;"

\* lines(search) - lines(replace) of an edit_file call
DeletedLines ==
    (CountChar(last.action.search, "\n") + 1) - (CountChar(last.action.replace, "\n") + 1)

\* fs.writeFile of the edited content was rejected by the operating system
WriteRejected ==
    /\ last.out.result = Fail("Failed to apply diff: " \o last.action.path)
    /\ files = last.before

\* C16: edit_file with the search string present in the file: when
\* lines(search) - lines(replace) is greater than MAX_DELETE_LINES the call
\* fails and the file is unchanged; when the difference is MAX_DELETE_LINES or
\* less (negative included) the call succeeds and the file holds the edited
\* content, the one exception being a write that the operating system rejects.
C16_DeleteThreshold ==
    (EditsExistingFile /\ Includes(ContentBefore, last.action.search)) =>
       /\ DeletedLines > MAX_DELETE_LINES =>
             /\ ~last.out.result.success
             /\ StartsWith(last.out.result.error, "Cannot delete more than 50 lines")
             /\ files = last.before
       /\ DeletedLines <= MAX_DELETE_LINES =>
             \/ /\ last.out.result = Ok("Diff applied to: " \o last.action.path)
                /\ ContentAfter =
                      StringReplace(ContentBefore, last.action.search, last.action.replace)
             \/ WriteRejected

C16_Witness ==
    /\ EditsExistingFile
    /\ last.action.path = "src/long.ts"
    /\ DeletedLines = MAX_DELETE_LINES
    /\ last.out.result.success
    /\ ContentAfter # ContentBefore
    /\ ContentAfter = "y" \o Repeat("x\n", 10)

\* number of positions of text at which sub occurs
Occurrences(text, sub) ==
    Cardinality({i \in 1..(Len(text) - Len(sub) + 1) :
                    SubSeq(text, i, i + Len(sub) - 1) = sub})

\* C17: edit_file fails, with an error string and the file unchanged, when
\* the search text occurs more than once in the file.
C17_NonUniqueSearchFails ==
    (EditsExistingFile /\ Occurrences(ContentBefore, last.action.search) > 1) =>
       /\ ~last.out.result.success
       /\ files = last.before

\* read_file of a path after a successful write_file of the same path, with
\* no write to that file in between
ReadsBackWrite ==
    /\ IsCallOf({"read_file"})
    /\ last.action.path # Undefined
    /\ PathResolve(PROJECT_ROOT, last.action.path) \in DOMAIN written
    /\ written[PathResolve(PROJECT_ROOT, last.action.path)].path = last.action.path

\* the content of that write_file
WrittenContent == written[PathResolve(PROJECT_ROOT, last.action.path)].content

\* no surrogate code unit of the string is unpaired
WellFormed(c) ==
    \A i \in 1..Len(c) :
       /\ SubSeq(c, i, i) = HighSurrogate =>
             (i < Len(c) /\ SubSeq(c, i + 1, i + 1) = LowSurrogate)
       /\ SubSeq(c, i, i) = LowSurrogate =>
             (i > 1 /\ SubSeq(c, i - 1, i - 1) = HighSurrogate)

\* C19 as stated: for every accepted path and every content string c, a
\* successful write_file(path, c) followed by read_file(path), with no write
\* to the path in between, returns success with output identical to c.
C19_RoundTripEveryString ==
    ReadsBackWrite => last.out.result = Ok(WrittenContent)

\* C19, amended: the read returns success; its output is identical to c when
\* c has no unpaired surrogate code unit, and otherwise is c with every
\* unpaired surrogate replaced by U+FFFD.
C19_RoundTripWellFormed ==
    ReadsBackWrite =>
       /\ last.out.result.success
       /\ WellFormed(WrittenContent) => last.out.result.output = WrittenContent
       /\ Len(last.out.result.output) = Len(WrittenContent)
       /\ \A i \in 1..Len(WrittenContent) :
             \/ SubSeq(last.out.result.output, i, i) = SubSeq(WrittenContent, i, i)
             \/ /\ SubSeq(WrittenContent, i, i) \in {HighSurrogate, LowSurrogate}
                /\ SubSeq(last.out.result.output, i, i) = ReplacementChar

C19_Witness ==
    /\ ReadsBackWrite
    /\ last.action.path = "src/a.ts"
    /\ WrittenContent = "a\n^~"
    /\ last.out.result = Ok("a\n^~")

\* C20: pickModel(task, override) returns the model of the override whenever
\* the override is haiku, sonnet or opus, for every task; with no override or
\* with override auto it returns haiku for classify, sonnet for chat, plan
\* and critic, and opus for agent.
C20_PickModel ==
    last.call = "pickModel" =>
       /\ last.override = "haiku"  => last.out = "claude-haiku-4-5"
       /\ last.override = "sonnet" => last.out = "claude-sonnet-4-5"
       /\ last.override = "opus"   => last.out = "claude-opus-4-5"
       /\ last.override \in {Undefined, "auto"} =>
             /\ last.task = "classify" => last.out = "claude-haiku-4-5"
             /\ last.task \in {"chat", "plan", "critic"} => last.out = "claude-sonnet-4-5"
             /\ last.task = "agent" => last.out = "claude-opus-4-5"

C20_Witness ==
    /\ last.call = "pickModel"
    /\ last.task = "agent"
    /\ last.override = "haiku"
    /\ last.out = "claude-haiku-4-5"

\* The entries under root that list_files can list: every file and every
\* directory below root whose path relative to root holds no blocked name.
Listable(fs, root) ==
    UNION {{SubSeq(q, 1, k) :
               k \in {j \in (Len(root) + 2)..Len(q) :
                        /\ (j = Len(q) \/ SubSeq(q, j + 1, j + 1) = "/")
                        /\ \A b \in BLOCKED_PATHS :
                              ~Includes(SubSeq(q, Len(root) + 2, j), b)}} :
             q \in {p \in DOMAIN fs : StartsWith(p, root \o "/")}}

\* the number of entries that a result of list_files holds
EntriesReturned ==
    IF last.out.result.output = "" THEN 0
    ELSE Cardinality({i \in 1..Len(last.out.result.output) :
                         SubSeq(last.out.result.output, i, i) = "\n"}) + 1

\* a list_files call has gone through its walk and returned
Listed == last.call = "listFiles" /\ walk.at = "done" /\ "w" \in DOMAIN walk

\* C18: list_files never holds or returns more than 200 entries, files and
\* directories both counted, whatever the shape and depth of the tree; it
\* returns every listable entry when there are at most 200, and exactly 200
\* when there are more.
C18_ListCap ==
    /\ walk.at = "walking" => Len(walk.w.files) <= 200
    /\ Listed =>
          LET listable == Cardinality(Listable(files, PathResolve(PROJECT_ROOT, last.dirPath)))
          IN /\ last.out.result.success
             /\ EntriesReturned <= 200
             /\ listable > 200 => EntriesReturned = 200
             /\ listable <= 200 => EntriesReturned = listable

C18_Witness ==
    /\ Listed
    /\ last.dirPath = "."
    /\ Cardinality(Listable(files, PROJECT_ROOT)) = 208
    /\ EntriesReturned = 200

(***************************************************************************)
(* Prompt construction: the helpers that bound the project context         *)
(* (anthropic-client), called directly with any arguments.                 *)
(***************************************************************************)

\* the longest file list passed to compressFileTree
MaxTreeFiles == 3

\* the largest maxFiles and maxChars passed
MaxLimit == 5

\* s.endsWith(p)
EndsWith(s, p) == Len(p) <= Len(s) /\ SubSeq(s, Len(s) - Len(p) + 1, Len(s)) = p

\* s.slice(start, end) of a string or an array for integer arguments:
\* a negative index counts from the end, and every index is clamped
Slice(s, start, end) ==
    LET from == IF start < 0 THEN (IF Len(s) + start < 0 THEN 0 ELSE Len(s) + start)
                ELSE Min(start, Len(s))
        to   == IF end < 0 THEN (IF Len(s) + end < 0 THEN 0 ELSE Len(s) + end)
                ELSE Min(end, Len(s))
    IN SubSeq(s, from + 1, to)

\* s.slice(start)
SliceFrom(s, start) == Slice(s, start, Len(s))

\* the text put where content was cut
TruncationMarker == "\n\n... [truncated] ...\n\n"

\* Variant of truncateContent that keeps no tail when half is 0.
truncateContentEmptyTail(content, maxChars) ==
    IF Len(content) <= maxChars THEN content
    ELSE LET half == maxChars \div 2
         IN Slice(content, 0, half) \o TruncationMarker
               \o (IF half = 0 THEN "" ELSE SliceFrom(content, 0 - half))

truncateContent(content, maxChars) ==
    IF Len(content) <= maxChars THEN content
    ELSE LET half == maxChars \div 2
         IN Slice(content, 0, half) \o TruncationMarker \o SliceFrom(content, 0 - half)

\* the predicate of files.filter(f => ...) that selects priorityFiles
IsPriorityFile(f) ==
    \/ Includes(f, "src/") \/ Includes(f, "server/") \/ Includes(f, "client/")
    \/ EndsWith(f, ".ts") \/ EndsWith(f, ".tsx") \/ EndsWith(f, ".json")

\* Variant of compressFileTree that returns the priority files uncut.
compressFileTreeNoSlice(fileList, maxFiles) ==
    IF Len(fileList) <= maxFiles THEN fileList
    ELSE SelectSeq(fileList, IsPriorityFile)

compressFileTree(fileList, maxFiles) ==
    IF Len(fileList) <= maxFiles THEN fileList
    ELSE Slice(SelectSeq(fileList, IsPriorityFile), 0, maxFiles)

\* entries of a file tree: priority files and others
TreeEntries == {"src/a.ts", "b.json", "README.md", "img.png"}

\* the file lists passed: every list of at most MaxTreeFiles entries
FileLists == UNION {[1..n -> TreeEntries] : n \in 0..MaxTreeFiles}

\* the contents passed: texts of 0 to 8 characters
PromptContents == {SubSeq("abcdefgh", 1, n) : n \in 0..8}

InitPrompt ==
    /\ model = streamChatResponse(Undefined)
    /\ pc = "returned"
    /\ step = 0
    /\ fullContent = ""
    /\ events = <<>>
    /\ anthropicMessages = <<>>
    /\ response = NoResponse
    /\ blockIdx = 1
    /\ hasToolUse = FALSE
    /\ toolResults = <<>>
    /\ files = CallsInitialFiles
    /\ res = <<>>
    /\ returned = <<>>
    /\ invocations = <<>>
    /\ running = <<>>
    /\ executed = <<>>
    /\ last = NoCall
    /\ ncalls = 0
    /\ written = NoWrites
    /\ walk = NoWalk
    /\ client = NoClient
    /\ orch = NoOrchestrator
    /\ procs = NoProcesses
    /\ edits = NoEdits
    /\ projects = NoProjects

\* compressFileTree(files, maxFiles) by a caller
CallCompressFileTree ==
    /\ last = NoCall
    /\ \E fileList \in FileLists, maxFiles \in 0..MaxLimit :
          last' = [call |-> "compressFileTree", files |-> fileList,
                   maxFiles |-> maxFiles,
                   out |-> compressFileTree(fileList, maxFiles)]
    /\ UNCHANGED <<loopVars, files, ncalls, written, walk>>

\* truncateContent(content, maxChars) by a caller
CallTruncateContent ==
    /\ last = NoCall
    /\ \E content \in PromptContents, maxChars \in 0..MaxLimit :
          last' = [call |-> "truncateContent", content |-> content,
                   maxChars |-> maxChars,
                   out |-> truncateContent(content, maxChars)]
    /\ UNCHANGED <<loopVars, files, ncalls, written, walk>>

NextPrompt ==
    \/ CallCompressFileTree
    \/ CallTruncateContent

SpecPrompt == InitPrompt /\ [][NextPrompt]_vars

\* some choice of positions of the longer sequence, in increasing order,
\* yields the shorter one
IsSubsequence(short, long) ==
    \E pick \in [1..Len(short) -> 1..Len(long)] :
       /\ \A i \in 1..Len(short) : long[pick[i]] = short[i]
       /\ \A i \in 1..(Len(short) - 1) : pick[i] < pick[i + 1]

\* C22: compressFileTree(files, maxFiles) returns at most maxFiles entries;
\* every returned entry is an entry of the input and the relative order of
\* the input is kept; an input of at most maxFiles entries is returned
\* unchanged.
C22_CompressFileTree ==
    last.call = "compressFileTree" =>
       /\ Len(last.out) <= last.maxFiles
       /\ IsSubsequence(last.out, last.files)
       /\ Len(last.files) <= last.maxFiles => last.out = last.files

C22_Witness ==
    /\ last.call = "compressFileTree"
    /\ last.files = <<"src/a.ts", "README.md", "b.json">>
    /\ last.maxFiles = 1
    /\ last.out = <<"src/a.ts">>

\* C23: truncateContent returns the content unchanged when its length is at
\* most maxChars; otherwise the result is the first floor(maxChars / 2)
\* characters, the truncation marker and the last floor(maxChars / 2)
\* characters, so at most maxChars characters of the content are in it.
C23_TruncateContent ==
    last.call = "truncateContent" =>
       LET half == last.maxChars \div 2
           n    == Len(last.content)
       IN /\ n <= last.maxChars => last.out = last.content
          /\ n > last.maxChars =>
                /\ last.out = SubSeq(last.content, 1, half)
                                 \o "\n\n... [truncated] ...\n\n"
                                 \o SubSeq(last.content, n - half + 1, n)
                /\ Len(last.out) - Len("\n\n... [truncated] ...\n\n") <= last.maxChars

(***************************************************************************)
(* The chat service called through its entry streamChatResponse, with      *)
(* every model override.                                                   *)
(***************************************************************************)

\* streamChatResponse(messages, res, options) is called with some
\* options.modelOverride and calls runAgentLoop with the model it settles on
InitChat ==
    /\ \E modelOverride \in ModelOverrides \cup {Undefined} :
          /\ last = [call |-> "streamChatResponse", modelOverride |-> modelOverride]
          /\ model = streamChatResponse(modelOverride)
    /\ pc = "loop"
    /\ step = 0
    /\ fullContent = ""
    /\ events = <<>>
    /\ anthropicMessages = InitialMessages
    /\ response = NoResponse
    /\ blockIdx = 1
    /\ hasToolUse = FALSE
    /\ toolResults = <<>>
    /\ files = ("/app/package.json" :> "{}")
    /\ res = <<>>
    /\ returned = <<>>
    /\ invocations = <<>>
    /\ running = <<>>
    /\ executed = <<>>
    /\ ncalls = 0
    /\ written = NoWrites
    /\ walk = NoWalk
    /\ client = NoClient
    /\ orch = NoOrchestrator
    /\ procs = NoProcesses
    /\ edits = NoEdits
    /\ projects = NoProjects

SpecChat == InitChat /\ [][Next]_vars

\* the model that the chat-initiated loop is to use for an override
ChatModelFor(modelOverride) ==
    IF modelOverride = "haiku" THEN "claude-haiku-4-5" ELSE "claude-sonnet-4-5"

\* C21: the chat-initiated loop never invokes the top-tier model: when the
\* selection yields opus (agent tier with no override or auto, or an explicit
\* opus override) every model invocation of the run uses sonnet; a haiku or
\* sonnet override is used as it is; the model named in the done message is
\* the model invoked.
C21_ChatNeverUsesOpus ==
    /\ pc = "invoking" =>
          /\ model # "claude-opus-4-5"
          /\ model = ChatModelFor(last.modelOverride)
    /\ \A i \in DOMAIN res :
          ("done" \in DOMAIN res[i]) => res[i].model = ChatModelFor(last.modelOverride)

C21_Witness ==
    /\ last.modelOverride = "opus"
    /\ Len(invocations) = 2
    /\ res # <<>>
    /\ "done" \in DOMAIN res[Len(res)]
    /\ res[Len(res)].model = "claude-sonnet-4-5"

(***************************************************************************)
(* The outputs of the tool calls of the loop: what the stream shows of     *)
(* them and what the model is given.                                       *)
(***************************************************************************)

\* a source text one character longer than the preview of a tool_result message
LongOutput == Concat([i \in 1..(OUTPUT_PREVIEW_CHARS + 1) |-> "x"], 1, OUTPUT_PREVIEW_CHARS + 1)

\* The project directory when the run starts: src/a.ts is an empty file or
\* one longer than the preview.
OutputFiles ==
    {("/app/package.json" :> "{}") @@ ("/app/src/a.ts" :> content) :
        content \in {"", LongOutput}}

InitOutput ==
    /\ model = streamChatResponse(Undefined)
    /\ pc = "loop"
    /\ step = 0
    /\ fullContent = ""
    /\ events = <<>>
    /\ anthropicMessages = InitialMessages
    /\ response = NoResponse
    /\ blockIdx = 1
    /\ hasToolUse = FALSE
    /\ toolResults = <<>>
    /\ files \in OutputFiles
    /\ res = <<>>
    /\ returned = <<>>
    /\ invocations = <<>>
    /\ running = <<>>
    /\ executed = <<>>
    /\ last = NoCall
    /\ ncalls = 0
    /\ written = NoWrites
    /\ walk = NoWalk
    /\ client = NoClient
    /\ orch = NoOrchestrator
    /\ procs = NoProcesses
    /\ edits = NoEdits
    /\ projects = NoProjects

SpecOutput == InitOutput /\ [][Next]_vars

\* C24: for every tool call of the loop, the output in the tool_result message
\* is the first 500 characters of the output of the tool, never more, and the
\* text given back to the model for the call is the whole output of the tool,
\* or "Error: " and the error text when the call failed.
C24_PreviewAndFullFeedback ==
    [][(pc = "executing" /\ pc' = "blocks") =>
          LET block  == response.content[blockIdx]
              action == mapToolToAction(block.name, block.input)
              shown  == Last(res').toolResult
              fed    == Last(toolResults').result
          IN \E out \in executeAction(action, files) :
                /\ files' = out.files
                /\ IF out.result.success
                   THEN /\ shown.output = Slice0(out.result.output, 500)
                        /\ Len(shown.output) <= 500
                        /\ fed = out.result.output
                   ELSE fed = "Error: " \o out.result.error]_vars

\* C24 as the code has it: as C24, but when the output of a successful call
\* is the empty string the text given back to the model is "Success".
C24_PreviewAndFeedback ==
    [][(pc = "executing" /\ pc' = "blocks") =>
          LET block  == response.content[blockIdx]
              action == mapToolToAction(block.name, block.input)
              shown  == Last(res').toolResult
              fed    == Last(toolResults').result
          IN \E out \in executeAction(action, files) :
                /\ files' = out.files
                /\ IF out.result.success
                   THEN /\ shown.output = Slice0(out.result.output, 500)
                        /\ Len(shown.output) <= 500
                        /\ fed = IF out.result.output = ""
                                 THEN "Success"
                                 ELSE out.result.output
                   ELSE fed = "Error: " \o out.result.error]_vars

\* a read_file call returned 501 characters: the message shows 500 of them,
\* the model is given them all
C24_Witness ==
    /\ pc = "blocks"
    /\ toolResults # <<>>
    /\ Last(toolResults).result = LongOutput
    /\ "toolResult" \in DOMAIN Last(res)
    /\ Len(Last(res).toolResult.output) = 500

(***************************************************************************)
(* Loops that run side by side.  The tool executor keeps the current       *)
(* project in a module-level variable; runAgentLoop sets it on entry when  *)
(* the caller gave a project id.  A loop gives up control where it awaits: *)
(* at the model invocation and at the execution of a tool.                 *)
(***************************************************************************)

\* the loops started by the callers
Loops == {1, 2}

\* options.projectId of a caller
ProjectIds == {"p1", "p2", Undefined}

\* setProjectContext(projectId): the module-level current project
setProjectContext(projectId) == projectId

\* a loop of a caller before runAgentLoop is called; seen lists the current
\* project found by each tool call of the loop
IdleLoop(projectId) ==
    [pc |-> "idle", projectId |-> projectId, step |-> 0, block |-> 0, seen |-> <<>>]

\* Two callers with different values of options.projectId.
InitProjects ==
    /\ \E first \in ProjectIds, second \in ProjectIds :
          /\ first # second
          /\ projects = [current |-> Undefined,
                         loop |-> <<IdleLoop(first), IdleLoop(second)>>]
    /\ model = streamChatResponse(Undefined)
    /\ pc = "loop"
    /\ step = 0
    /\ fullContent = ""
    /\ events = <<>>
    /\ anthropicMessages = InitialMessages
    /\ response = NoResponse
    /\ blockIdx = 1
    /\ hasToolUse = FALSE
    /\ toolResults = <<>>
    /\ files = ("/app/package.json" :> "{}")
    /\ res = <<>>
    /\ returned = <<>>
    /\ invocations = <<>>
    /\ running = <<>>
    /\ executed = <<>>
    /\ last = NoCall
    /\ ncalls = 0
    /\ written = NoWrites
    /\ walk = NoWalk
    /\ client = NoClient
    /\ orch = NoOrchestrator
    /\ procs = NoProcesses
    /\ edits = NoEdits

LoopVarsOfTheRun == <<model, pc, step, fullContent, events, anthropicMessages, response,
                      blockIdx, hasToolUse, toolResults, files, res, returned, invocations,
                      running, executed, last, ncalls, written, walk, client, orch,
                      procs, edits>>

SetLoop(i, l) == [projects.loop EXCEPT ![i] = l]

\* runAgentLoop is called: if (options.projectId) setProjectContext(...), then
\* the first step up to the await of client.messages.create
LoopEnter(i) ==
    /\ projects.loop[i].pc = "idle"
    /\ LoopTest(0)
    /\ projects' =
          [current |-> IF projects.loop[i].projectId # Undefined
                       THEN setProjectContext(projects.loop[i].projectId)
                       ELSE projects.current,
           loop |-> SetLoop(i, [projects.loop[i] EXCEPT !.pc = "invoking", !.step = 1])]
    /\ UNCHANGED LoopVarsOfTheRun

\* the response holds a tool_use block: executeAction is called and runs
\* against the current project up to its first await
LoopToolCall(i) ==
    /\ projects.loop[i].pc = "invoking"
    /\ projects' =
          [projects EXCEPT !.loop =
              SetLoop(i, [projects.loop[i] EXCEPT
                             !.pc = "executing", !.block = 1,
                             !.seen = Append(@, projects.current)])]
    /\ UNCHANGED LoopVarsOfTheRun

\* executeAction returns and the next block is a tool_use block too
LoopNextToolCall(i) ==
    /\ projects.loop[i].pc = "executing"
    /\ projects.loop[i].block < MaxBlocks
    /\ projects' =
          [projects EXCEPT !.loop =
              SetLoop(i, [projects.loop[i] EXCEPT
                             !.block = @ + 1,
                             !.seen = Append(@, projects.current)])]
    /\ UNCHANGED LoopVarsOfTheRun

\* executeAction returns, the blocks are done and stop_reason is not
\* end_turn: the next step up to the invocation, or the end at the limit
LoopNextStep(i) ==
    /\ projects.loop[i].pc = "executing"
    /\ projects' =
          [projects EXCEPT !.loop =
              SetLoop(i, IF LoopTest(projects.loop[i].step)
                         THEN [projects.loop[i] EXCEPT !.pc = "invoking", !.step = @ + 1]
                         ELSE [projects.loop[i] EXCEPT !.pc = "returned"])]
    /\ UNCHANGED LoopVarsOfTheRun

\* the run ends: a response without tool call, the invocation throws, or
\* stop_reason is end_turn after the tool calls
LoopReturn(i) ==
    /\ projects.loop[i].pc \in {"invoking", "executing"}
    /\ projects' =
          [projects EXCEPT !.loop = SetLoop(i, [projects.loop[i] EXCEPT !.pc = "returned"])]
    /\ UNCHANGED LoopVarsOfTheRun

NextProjects ==
    \/ \E i \in Loops : LoopEnter(i)
    \/ \E i \in Loops : LoopToolCall(i)
    \/ \E i \in Loops : LoopNextToolCall(i)
    \/ \E i \in Loops : LoopNextStep(i)
    \/ \E i \in Loops : LoopReturn(i)

SpecProjects == InitProjects /\ [][NextProjects]_vars

\* C25: when two loops for different projects run side by side, every tool
\* call of a loop runs against the project of that loop: no other loop that
\* starts, runs or ends changes it, and the tool calls of a loop started
\* without project id run against no project of another loop.
C25_ToolCallsUseOwnProject ==
    \A i \in DOMAIN projects.loop :
       \A k \in DOMAIN projects.loop[i].seen :
          projects.loop[i].seen[k] = projects.loop[i].projectId

(***************************************************************************)
(* The accumulated text and the conversation state of a run.               *)
(***************************************************************************)

\* C26: when a run has ended, the accumulated text in the final done message
\* and in the value returned to the caller is the concatenation, in order, of
\* the text of every text message written to the stream during the run.
C26_AccumulatedText ==
    pc = "returned" =>
       /\ IsDone(Last(res))
       /\ Last(res).fullContent = ConcatTexts(res)
       /\ returned[1].content = ConcatTexts(res)

\* a run of two steps that wrote a text in each
C26_Witness ==
    /\ pc = "returned"
    /\ step = 2
    /\ Len(SelectSeq(res, IsText)) >= 2
    /\ \E i, j \in DOMAIN res :
          /\ i < j
          /\ IsText(res[i]) /\ IsText(res[j])
          /\ \E k \in (i + 1)..(j - 1) : "toolResult" \in DOMAIN res[k]

\* The runs in which the code between two awaits runs to its end, and no
\* model invocation and no execution of a tool goes on for ever (each returns
\* or throws).
SpecFair ==
    Init /\ [][Next]_vars
      /\ WF_vars(Invoke \/ ExitLoop \/ TextStep \/ ToolStart \/ Complete
                     \/ CompleteEndTurn \/ Continue)
      /\ []<>(pc # "invoking")
      /\ []<>(pc # "executing")

\* C27: every run returns to its caller, provided that every model
\* invocation and every tool execution returns or throws, and no run makes
\* more than MAX_AGENT_STEPS model invocations.
C27_Terminates ==
    /\ <>(pc = "returned")
    /\ [](Len(invocations) <= MAX_AGENT_STEPS)

\* a run that returned after MAX_AGENT_STEPS model invocations
C27_Witness ==
    /\ pc = "returned"
    /\ Len(invocations) = MAX_AGENT_STEPS

(***************************************************************************)
(* The effect of edit_file and of a refused write_file on the files.       *)
(***************************************************************************)

\* text with the first occurrence of search replaced by the characters of
\* replace as they are
LiteralReplace(text, search, replace) ==
    LET i == IndexOf(text, search)
    IN IF i = 0 THEN text
       ELSE SubSeq(text, 1, i - 1) \o replace \o SubSeq(text, i + Len(search), Len(text))

\* C28: after a successful edit_file(path, search, replace) the content of
\* the file is the content before with the first occurrence of search
\* replaced by the replace text taken literally, whatever the replace text
\* ("$&" and "$$" included); no other character of the file changes.
C28_LiteralReplacement ==
    (EditsExistingFile /\ Returned /\ last.out.result.success) =>
       ContentAfter = LiteralReplace(ContentBefore, last.action.search, last.action.replace)

\* the guard refuses the path of a write_file call, or its extension is not
\* empty and not in the allow-list
WriteRefused ==
    /\ IsCallOf({"write_to_file", "create_file"})
    /\ last.action.path # Undefined
    /\ \/ ~isPathSafe(last.action.path)
       \/ /\ PathExtname(last.action.path) # ""
          /\ PathExtname(last.action.path) \notin ALLOWED_EXTENSIONS

\* C29: when write_file fails because the guard refuses the path or because
\* the extension is not empty and not in the allow-list, the file system is
\* as before: no file is created or overwritten, no directory is created (no
\* call of the file system is made).
C29_RefusedWriteChangesNothing ==
    WriteRefused =>
       /\ Returned
       /\ ~last.out.result.success
       /\ files = last.before
       /\ last.out.touched = {}

\* write_file of a file with an extension that is not allowed, in a
\* directory the guard accepts
C29_Witness ==
    /\ WriteRefused
    /\ isPathSafe(last.action.path)
    /\ last.action.content = "new"
    /\ last.out.result = Fail("File type not allowed: .exe")

\* the tool_use blocks of a response, in order
ToolUseBlocks(resp) == SelectSeq(resp.content, LAMBDA b : b.type = "tool_use")

\* C30: the conversation state of a run only grows: no turn is changed or
\* removed.  A step whose response holds tool calls appends two turns, the
\* raw response of the assistant and then a user turn with one tool_result
\* for each tool_use block of the response, in the same order and with its
\* tool_use_id; a step without tool call and a failed model invocation
\* append nothing.
C30_AppendOnlyConversation ==
    [][LET n == Len(anthropicMessages)
       IN IF AfterBlocks /\ hasToolUse
          THEN /\ Len(anthropicMessages') = n + 2
               /\ SubSeq(anthropicMessages', 1, n) = anthropicMessages
               /\ anthropicMessages'[n + 1] =
                     [role |-> "assistant", content |-> response.content]
               /\ anthropicMessages'[n + 2].role = "user"
               /\ LET uses == ToolUseBlocks(response)
                      trs  == anthropicMessages'[n + 2].content
                  IN /\ Len(trs) = Len(uses)
                     /\ \A k \in DOMAIN trs :
                           /\ trs[k].type = "tool_result"
                           /\ trs[k].tool_use_id = uses[k].id
          ELSE anthropicMessages' = anthropicMessages]_vars

\* two steps with tool calls: four turns after the message of the user, the
\* last with two tool results
C30_Witness ==
    /\ Len(anthropicMessages) = Len(InitialMessages) + 4
    /\ Len(Last(anthropicMessages).content) = 2
    /\ anthropicMessages[1] = InitialMessages[1]

(***************************************************************************)
(* The guard of paths by segments.                                         *)
(***************************************************************************)

\* one of the segments of the path is a deny-listed name
HasDeniedSegment(p) ==
    \E i \in DOMAIN SplitPath(p) : SplitPath(p)[i] \in BLOCKED_PATHS

\* the files below root none of whose segments below root is a deny-listed
\* name, by their path relative to root
FilesWithoutDeniedSegment(fs, root) ==
    {SubSeq(q, Len(root) + 2, Len(q)) :
        q \in {r \in DOMAIN fs : /\ StartsWith(r, root \o "/")
                                 /\ ~HasDeniedSegment(SubSeq(r, Len(root) + 2, Len(r)))}}

\* C31: the guard refuses a path only when it resolves outside the project
\* root or one of its segments is a deny-listed name; a path inside the root
\* without such a segment is accepted, and list_files does not skip a file
\* without such a segment (here: when the listing is below its cap).
C31_GuardBySegments ==
    /\ (last.call = "listFiles" /\ last.out.result = Fail("Access denied: path not allowed")) =>
          \/ ~InsideRoot(PathResolve(PROJECT_ROOT, last.dirPath))
          \/ HasDeniedSegment(PathNormalize(last.dirPath))
    /\ (Listed /\ Len(walk.w.files) < LIST_FILES_CAP) =>
          \A rel \in FilesWithoutDeniedSegment(files, PathResolve(PROJECT_ROOT, last.dirPath)) :
             \E i \in DOMAIN walk.w.files : walk.w.files[i] = rel

(***************************************************************************)
(* The browser: useChatStream reads the response of the chat route.  The   *)
(* server writes each message as "data: " + JSON + "\n\n"; the transport   *)
(* hands the bytes to reader.read() in chunks of any size.                 *)
(***************************************************************************)

\* Every variable of the loop, the direct calls and the project context at
\* rest: the part of the program that the specifications below do not run.
AtRest ==
    /\ model = streamChatResponse(Undefined)
    /\ pc = "returned"
    /\ step = 0
    /\ fullContent = ""
    /\ events = <<>>
    /\ anthropicMessages = <<>>
    /\ response = NoResponse
    /\ blockIdx = 1
    /\ hasToolUse = FALSE
    /\ toolResults = <<>>
    /\ files = ("/app/package.json" :> "{}")
    /\ res = <<>>
    /\ returned = <<>>
    /\ invocations = <<>>
    /\ running = <<>>
    /\ executed = <<>>
    /\ last = NoCall
    /\ ncalls = 0
    /\ written = NoWrites
    /\ walk = NoWalk
    /\ projects = NoProjects

atRestVars == <<model, pc, step, fullContent, events, anthropicMessages, response, blockIdx,
                hasToolUse, toolResults, files, res, returned, invocations, running,
                executed, last, ncalls, written, walk, projects>>

\* JSON.stringify of the messages of the chat route, with the fields that
\* the browser reads: a text message, a tool_use and a tool_result message,
\* the done message, the error message
JsonStringify(e) ==
    CASE "error" \in DOMAIN e -> "{\"error\":\"" \o e.error \o "\"}"
      [] "done" \in DOMAIN e ->
            "{\"done\":true,\"fullContent\":\"" \o e.fullContent
               \o "\",\"model\":\"" \o e.model \o "\"}"
      [] "toolUse" \in DOMAIN e -> "{\"toolUse\":{\"name\":\"" \o e.toolUse.name \o "\"}}"
      [] "toolResult" \in DOMAIN e ->
            "{\"toolResult\":{\"name\":\"" \o e.toolResult.name \o "\",\"success\":"
               \o (IF e.toolResult.success THEN "true" ELSE "false") \o "}}"
      [] OTHER -> "{\"content\":\"" \o e.content \o "\"}"

\* res.write of "data: " + JSON.stringify(e) + "\n\n"
SseMessage(e) == "data: " \o JsonStringify(e) \o "\n\n"

RECURSIVE SseStream(_)
\* the bytes of the messages written, in order
SseStream(evs) == IF evs = <<>> THEN "" ELSE SseMessage(Head(evs)) \o SseStream(Tail(evs))

\* What the server writes in one response: a run that ends with the done
\* message, with or without a tool call; the error message alone (the route
\* after the service threw); nothing after a text (the connection ended).
ServerStreams ==
    {<<[content |-> "Hi"], [done |-> TRUE, fullContent |-> "Hi", model |-> "m"]>>,
     <<[toolUse |-> [name |-> "read_file"]],
       [toolResult |-> [name |-> "read_file", success |-> TRUE]],
       [done |-> TRUE, fullContent |-> "", model |-> "m"]>>,
     <<[error |-> "Failed to generate response"]>>,
     <<[content |-> "Hi"]>>}

\* the messages that the server can write
WireEvents == UNION {{stream[i] : i \in DOMAIN stream} : stream \in ServerStreams}

RECURSIVE TrimStart(_)
TrimStart(s) ==
    IF Len(s) > 0 /\ SubSeq(s, 1, 1) \in {" ", "\n"} THEN TrimStart(SubSeq(s, 2, Len(s))) ELSE s

RECURSIVE TrimEnd(_)
TrimEnd(s) ==
    IF Len(s) > 0 /\ SubSeq(s, Len(s), Len(s)) \in {" ", "\n"}
    THEN TrimEnd(SubSeq(s, 1, Len(s) - 1)) ELSE s

\* JSON.parse(text): white space around the value is allowed; the value of a
\* text that is the JSON of a message, a SyntaxError (<<>>) for any other text
JsonParse(text) ==
    LET value == TrimEnd(TrimStart(text))
    IN IF \E e \in WireEvents : JsonStringify(e) = value
       THEN <<CHOOSE e \in WireEvents : JsonStringify(e) = value>>
       ELSE <<>>

RECURSIVE Split(_, _)
\* s.split(sep)
Split(s, sep) ==
    LET i == IndexOf(s, sep)
    IN IF i = 0 THEN <<s>>
       ELSE <<SubSeq(s, 1, i - 1)>> \o Split(SubSeq(s, i + Len(sep), Len(s)), sep)

\* the body of the try block for one parsed message (use-chat.ts 141-177)
ApplyData(c, data) ==
    LET c1 == IF "content" \in DOMAIN data /\ data.content # ""
              THEN [c EXCEPT !.fullResponse = @ \o data.content,
                             !.streamingContent = c.fullResponse \o data.content]
              ELSE c
        c2 == IF "toolUse" \in DOMAIN data
              THEN [c1 EXCEPT !.toolActions = Append(@, [name |-> data.toolUse.name])]
              ELSE c1
        n  == Len(c2.toolActions)
        c3 == IF "toolResult" \in DOMAIN data /\ n > 0
                 /\ c2.toolActions[n].name = data.toolResult.name
              THEN [c2 EXCEPT !.toolActions[n] =
                       [name |-> c2.toolActions[n].name,
                        result |-> [success |-> data.toolResult.success]]]
              ELSE c2
        c4 == IF "done" \in DOMAIN data
              THEN [c3 EXCEPT !.isStreaming = FALSE, !.usedModel = data.model]
              ELSE c3
    IN [c4 EXCEPT !.applied = Append(@, data)]

\* one turn of the for loop over the lines of a chunk
ApplyLine(c, line) ==
    IF StartsWith(line, "data: ")
    THEN LET parsed == JsonParse(SubSeq(line, 7, Len(line)))
         IN IF parsed = <<>> THEN c ELSE ApplyData(c, parsed[1])
    ELSE c

RECURSIVE ApplyLines(_, _)
\* for (const line of lines)
ApplyLines(c, lines) ==
    IF lines = <<>> THEN c ELSE ApplyLines(ApplyLine(c, Head(lines)), Tail(lines))

\* decoder.decode(value), chunk.split("\n\n") and the for loop
ProcessChunk(c, chunk) == ApplyLines(c, Split(chunk, "\n\n"))

\* the hook before sendMessage is called, and the bytes the server will send
IdleClient(stream) ==
    [pc |-> "idle", produced |-> stream, wire |-> SseStream(stream),
     isStreaming |-> FALSE, streamingContent |-> "", fullResponse |-> "",
     usedModel |-> Undefined, toolActions |-> <<>>, applied |-> <<>>]

InitClient ==
    /\ AtRest
    /\ \E stream \in ServerStreams : client = IdleClient(stream)
    /\ orch = NoOrchestrator
    /\ procs = NoProcesses
    /\ edits = NoEdits

\* sendMessage up to await fetch
sendMessage ==
    /\ client.pc = "idle"
    /\ client' = [client EXCEPT !.pc = "fetching", !.isStreaming = TRUE,
                                !.streamingContent = "", !.toolActions = <<>>]
    /\ UNCHANGED <<atRestVars, orch, procs, edits>>

\* fetch rejects or the response is not ok: the catch block
FetchFails ==
    /\ client.pc = "fetching"
    /\ client' = [client EXCEPT !.pc = "failed", !.isStreaming = FALSE]
    /\ UNCHANGED <<atRestVars, orch, procs, edits>>

\* the response arrives: res.body.getReader(), the first await reader.read()
FetchOk ==
    /\ client.pc = "fetching"
    /\ client' = [client EXCEPT !.pc = "reading"]
    /\ UNCHANGED <<atRestVars, orch, procs, edits>>

\* reader.read() returns the next bytes, as many as the transport has
ReadChunk ==
    /\ client.pc = "reading"
    /\ \E k \in 1..Len(client.wire) :
          client' = [ProcessChunk(client, SubSeq(client.wire, 1, k)) EXCEPT
                        !.wire = SubSeq(client.wire, k + 1, Len(client.wire))]
    /\ UNCHANGED <<atRestVars, orch, procs, edits>>

\* reader.read() returns done: break, and sendMessage returns
ReadDone ==
    /\ client.pc = "reading"
    /\ client.wire = ""
    /\ client' = [client EXCEPT !.pc = "returned"]
    /\ UNCHANGED <<atRestVars, orch, procs, edits>>

\* reader.read() rejects (the connection broke): the catch block
ReadFails ==
    /\ client.pc = "reading"
    /\ client' = [client EXCEPT !.pc = "failed", !.isStreaming = FALSE]
    /\ UNCHANGED <<atRestVars, orch, procs, edits>>

NextClient ==
    \/ sendMessage
    \/ FetchFails
    \/ FetchOk
    \/ ReadChunk
    \/ ReadDone
    \/ ReadFails

\* every await of sendMessage resolves or rejects
SpecClient == InitClient /\ [][NextClient]_vars /\ WF_vars(NextClient)

\* C32: every message the server writes is parsed and applied by the client
\* once and in the order written, however the transport cuts the bytes into
\* chunks: what has been applied is at any time the first messages written,
\* and all of them when the stream has ended.
C32_EveryEventApplied ==
    /\ client.pc = "reading" => IsPrefix(client.applied, client.produced)
    /\ client.pc = "returned" => client.applied = client.produced

\* C33: after sendMessage has set isStreaming, isStreaming is false again
\* once the response has ended: with the done message, with the error
\* message alone, or without terminal message.
C33_StreamingEnds ==
    [](client.pc = "fetching" =>
          <>(client.pc \in {"returned", "failed"} /\ ~client.isStreaming))

(***************************************************************************)
(* executeActions: the actions of one reply of the model, run in order.    *)
(***************************************************************************)

\* Upper bound on the number of actions in one list.
MaxActions == 2

\* the state of the for loop of executeActions: the results pushed, the disk,
\* and the calls of executeAction made: the index of the action, the disk
\* before the call and the disk it left
ActionsRun(results, fs, ran) == [results |-> results, files |-> fs, ran |-> ran]

\* Variant of StopsLoop with the test of the action type inverted.
StopsLoopOnMessage(action, result) == ~result.success /\ action.type = "message"

\* if (!result.success && action.type !== "message") break
StopsLoop(action, result) == ~result.success /\ action.type # "message"

RECURSIVE executeActionsFrom(_, _, _)
\* the for loop from the i-th action: await executeAction, push, break
executeActionsFrom(actions, i, acc) ==
    IF i > Len(actions) THEN {acc}
    ELSE UNION {LET pushed == ActionsRun(Append(acc.results, out.result), out.files,
                                         Append(acc.ran, [action |-> i, files |-> acc.files,
                                                          left |-> out.files]))
                IN IF StopsLoop(actions[i], out.result)
                   THEN {pushed}
                   ELSE executeActionsFrom(actions, i + 1, pushed) :
                   out \in executeAction(actions[i], acc.files)}

\* executeActions(actions) on the disk fs: every way the call can end
executeActions(actions, fs) == executeActionsFrom(actions, 1, ActionsRun(<<>>, fs, <<>>))

\* the actions that the lists are made of: a read that succeeds, a read of a
\* file that a write of the same list may have created, that write, an
\* edit, a command, a message, a message without content, a type outside
\* the switch
ListedActions ==
    {[type |-> "read_file", path |-> "src/a.ts"],
     [type |-> "read_file", path |-> "src/b.ts"],
     [type |-> "create_file", path |-> "src/b.ts", content |-> "new"],
     [type |-> "apply_diff", path |-> "src/a.ts", search |-> "x", replace |-> "y"],
     [type |-> "run_command", command |-> "npm test"],
     [type |-> "message", content |-> "hello"],
     [type |-> "message", content |-> Undefined],
     [type |-> "delete_file"]}

\* the lists of at most MaxActions actions
ActionLists == UNION {[1..n -> ListedActions] : n \in 0..MaxActions}

\* await executeActions(actions) by a caller, one call in a behaviour
CallExecuteActions ==
    /\ last = NoCall
    /\ \E actions \in ActionLists :
          \E run \in executeActions(actions, files) :
             /\ last' = [call |-> "executeActions", actions |-> actions,
                         before |-> files, out |-> run]
             /\ files' = run.files
    /\ ncalls' = ncalls + 1
    /\ UNCHANGED <<loopVars, written, walk>>

SpecActions == InitCalls /\ [][CallExecuteActions]_vars

\* C36: executeActions runs the actions in list order and stops at the first
\* failed one: the i-th result is a result of the i-th action on the disk
\* that the actions before it left, there are no more results than actions,
\* every result but the last is a success, and executeAction is called with
\* the first actions of the list, one call each, none after a failed result.
C36_StopsAtFirstFailure ==
    last.call = "executeActions" =>
       LET actions == last.actions
           results == last.out.results
           ran     == last.out.ran
       IN /\ Len(results) <= Len(actions)
          /\ Len(ran) = Len(results)
          /\ \A i \in DOMAIN ran : ran[i].action = i
          /\ \A i \in 1..(Len(results) - 1) : results[i].success
          /\ (Len(results) < Len(actions)) =>
                (results # <<>> /\ ~results[Len(results)].success)
          /\ \A i \in 1..Len(results) :
                /\ ran[i].files = IF i = 1 THEN last.before ELSE ran[i - 1].left
                /\ \E out \in executeAction(actions[i], ran[i].files) :
                      out.result = results[i] /\ out.files = ran[i].left
          /\ last.out.files = IF results = <<>> THEN last.before
                              ELSE ran[Len(results)].left

\* a list is cut short: the first action fails and the second is not run
C36_Witness ==
    /\ last.call = "executeActions"
    /\ Len(last.actions) = 2
    /\ Len(last.out.results) = 1
    /\ ~last.out.results[1].success

(***************************************************************************)
(* The orchestrator: runAgentLoop of agent-orchestrator.ts, called by the  *)
(* agent run route.  The model answers in text; parseAgentResponse reads   *)
(* the actions from it.                                                    *)
(***************************************************************************)

\* options.maxIterations || 15
DEFAULT_MAX_ITERATIONS == 15

\* maxIterations of the agent run route
ROUTE_MAX_ITERATIONS == 5

\* Upper bound on the number of different replies of the model in one run.
MaxScript == 2

\* values of options.maxIterations: <<>> when the field is absent
IterationOptions == {<<>>, <<0>>, <<1>>, <<ROUTE_MAX_ITERATIONS>>}

\* const maxIterations = options.maxIterations || 15
MaxIterationsOf(option) ==
    IF option = <<>> \/ option[1] = 0 THEN DEFAULT_MAX_ITERATIONS ELSE option[1]

\* The values that the model writes as JSON: actions that succeed and a
\* message without "done"; the same with a message that holds "Done"; a
\* failing action before a good one; no actions field; no message field.
AgentValues ==
    {[actions |-> <<[type |-> "read_file", path |-> "package.json"]>>, message |-> "Working"],
     [actions |-> <<[type |-> "read_file", path |-> "package.json"]>>, message |-> "All Done"],
     [actions |-> <<[type |-> "read_file", path |-> "src/b.ts"],
                    [type |-> "read_file", path |-> "package.json"]>>, message |-> "done"],
     [message |-> "hi"],
     [actions |-> <<[type |-> "read_file", path |-> "package.json"]>>]}

RECURSIVE JoinWith(_, _)
\* parts.join(sep)
JoinWith(parts, sep) ==
    IF parts = <<>> THEN ""
    ELSE IF Len(parts) = 1 THEN parts[1]
    ELSE parts[1] \o sep \o JoinWith(Tail(parts), sep)

\* the JSON text of a value of AgentValues
AgentJson(v) ==
    LET action(a) == "{\"type\":\"" \o a.type \o "\",\"path\":\"" \o a.path \o "\"}"
        fields ==
            (IF "actions" \in DOMAIN v
             THEN <<"\"actions\":["
                      \o JoinWith([i \in DOMAIN v.actions |-> action(v.actions[i])], ",")
                      \o "]">>
             ELSE <<>>)
            \o (IF "message" \in DOMAIN v
                THEN <<"\"message\":\"" \o v.message \o "\"">> ELSE <<>>)
    IN "{" \o JoinWith(fields, ",") \o "}"

\* JSON.parse of a text of the model: <<value>>, or <<>> for a SyntaxError
AgentJsonParse(text) ==
    IF \E v \in AgentValues : AgentJson(v) = text
    THEN <<CHOOSE v \in AgentValues : AgentJson(v) = text>>
    ELSE <<>>

\* The three backquotes of a fenced block; a backquote is written ' in the
\* texts of the model.
Fence == "'''"

\* content.match of the fenced json block (three backquotes, json, newline,
\* the shortest text, newline, three backquotes): <<group 1>> or <<>>
MatchFenced(content) ==
    LET open == IndexOf(content, Fence \o "json\n")
        rest == SubSeq(content, open + 8, Len(content))
        shut == IndexOf(rest, "\n" \o Fence)
    IN IF open = 0 \/ shut = 0 THEN <<>> ELSE <<SubSeq(rest, 1, shut - 1)>>

\* content.match of an opening brace, any text, the quoted word actions, any
\* text, a closing brace (greedy): <<match>> or <<>>
MatchDirect(content) ==
    LET open == IndexOf(content, "{")
        rest == SubSeq(content, open + 1, Len(content))
        key  == IndexOf(rest, "\"actions\"")
        tail == SubSeq(rest, key + 9, Len(rest))
        shut == LastIndexOf(tail, "}", Len(tail))
    IN IF open = 0 \/ key = 0 \/ shut = 0 THEN <<>>
       ELSE <<SubSeq(content, open, open + key + 8 + shut)>>

\* parseAgentResponse(content): the JSON of the fenced block, else the JSON
\* around "actions", else (also after a SyntaxError) the text as message
parseAgentResponse(content) ==
    LET asMessage == [actions |-> <<>>, message |-> content]
        fenced == MatchFenced(content)
        direct == MatchDirect(content)
    IN IF fenced # <<>>
       THEN (IF AgentJsonParse(fenced[1]) = <<>> THEN asMessage
             ELSE AgentJsonParse(fenced[1])[1])
       ELSE IF direct # <<>>
       THEN (IF AgentJsonParse(direct[1]) = <<>> THEN asMessage
             ELSE AgentJsonParse(direct[1])[1])
       ELSE asMessage

\* What client.messages.create can do: resolve with a text block (plain
\* text, JSON in a fence, JSON in the text, a fence that is not JSON), with
\* a block that is not text, with no block, or reject.
ModelReplies ==
    {[content |-> <<[type |-> "text", text |-> "I am finished."]>>],
     [content |-> <<[type |-> "text", text |-> Fence \o "json\n{oops\n" \o Fence]>>],
     [content |-> <<[type |-> "tool_use"]>>],
     [content |-> <<>>],
     [rejects |-> "overloaded"]}
      \cup {[content |-> <<[type |-> "text", text |-> "Plan:\n" \o Fence \o "json\n" \o AgentJson(v)
                                                    \o "\n" \o Fence]>>] :
               v \in AgentValues}
      \cup {[content |-> <<[type |-> "text", text |-> "Here: " \o AgentJson(v) \o " ok"]>>] :
               v \in AgentValues}

\* the replies of the model in one run: the k-th call gets the k-th reply of
\* the script, and the last reply again once the script is used up
ModelScripts == UNION {[1..n -> ModelReplies] : n \in 1..MaxScript}

\* one line of toolResultMessage
ToolResultLine(action, r) ==
    "[" \o action.type
        \o (IF Get(action, "path") \in {Undefined, ""} THEN "" ELSE " " \o action.path)
        \o "]: " \o (IF r.success THEN "SUCCESS" ELSE "FAILED") \o "\n"
        \o (IF Get(r, "output") \notin {Undefined, ""} THEN r.output
            ELSE IF Get(r, "error") \notin {Undefined, ""} THEN r.error ELSE "")

\* Variant of IterationTest that runs the loop once more.
IterationTestOneMore(i, maxIterations) == i <= maxIterations

\* for (let i = 0; i < maxIterations; i++)
IterationTest(i, maxIterations) == i < maxIterations

\* Variant of CatchBlock that goes on with the next iteration.
CatchBlockContinues(o) == [o EXCEPT !.pc = "loop", !.i = @ + 1]

\* the end of the catch block: break
CatchBlock(o) == [o EXCEPT !.pc = "after"]

\* the message that the catch block writes
StepFailed(i) == [step |-> i + 1, status |-> "error", error |-> "Agent execution failed"]

\* the route before it calls runAgentLoop
IdleOrchestrator(option, script) ==
    [pc |-> "idle", option |-> option, script |-> script, maxIterations |-> 0, i |-> 0,
     prompt |-> "fix it", messages |-> <<>>, allToolResults |-> <<>>,
     agentResponse |-> Undefined, calls |-> 0]

InitOrchestrator ==
    /\ AtRest
    /\ client = NoClient
    /\ \E option \in IterationOptions, script \in ModelScripts :
          orch = IdleOrchestrator(option, script)
    /\ procs = NoProcesses
    /\ edits = NoEdits

\* the variables that the orchestrator leaves alone
orchRestVars == <<model, pc, step, fullContent, events, anthropicMessages, response, blockIdx,
                  hasToolUse, toolResults, returned, invocations, running, executed, last,
                  ncalls, written, walk, projects, client, procs, edits>>

\* runAgentLoop up to the for loop
OrchStart ==
    /\ orch.pc = "idle"
    /\ orch' = [orch EXCEPT !.pc = "loop", !.maxIterations = MaxIterationsOf(orch.option),
                            !.messages = <<[role |-> "user", content |-> orch.prompt]>>]
    /\ UNCHANGED <<orchRestVars, files, res>>

\* getAnthropicClient throws (no API key): the catch block of the route
OrchSetupThrows ==
    /\ orch.pc = "idle"
    /\ orch' = [orch EXCEPT !.pc = "failed"]
    /\ res' = Append(res, [error |-> "Agent failed"])
    /\ UNCHANGED <<orchRestVars, files>>

\* the head of an iteration: the thinking message and the call of the model
OrchThink ==
    /\ orch.pc = "loop"
    /\ IterationTest(orch.i, orch.maxIterations)
    /\ res' = Append(res, [step |-> orch.i + 1, status |-> "thinking"])
    /\ orch' = [orch EXCEPT !.pc = "calling", !.calls = @ + 1]
    /\ UNCHANGED <<orchRestVars, files>>

\* the model has answered: from the await of create to the await of
\* executeActions, to a break, or into the catch block
OrchReply ==
    /\ orch.pc = "calling"
    /\ LET reply == orch.script[Min(orch.calls, Len(orch.script))]
       IN IF "rejects" \in DOMAIN reply \/ reply.content = <<>>
          THEN /\ orch' = CatchBlock(orch)
               /\ res' = Append(res, StepFailed(orch.i))
          ELSE LET content == IF reply.content[1].type = "text"
                              THEN reply.content[1].text ELSE ""
                   pushed == [orch EXCEPT !.messages =
                                 Append(@, [role |-> "assistant", content |-> content])]
                   said == [step |-> orch.i + 1, status |-> "response", content |-> content]
                   agentResponse == parseAgentResponse(content)
               IN IF "actions" \notin DOMAIN agentResponse
                  THEN /\ orch' = CatchBlock(pushed)
                       /\ res' = res \o <<said, StepFailed(orch.i)>>
                  ELSE IF Len(agentResponse.actions) = 0
                  THEN /\ orch' = [pushed EXCEPT !.pc = "after"]
                       /\ res' = res \o <<said, [step |-> orch.i + 1, status |-> "done",
                                                 message |-> Get(agentResponse, "message")]>>
                  ELSE /\ orch' = [pushed EXCEPT !.pc = "executing",
                                                 !.agentResponse = agentResponse]
                       /\ res' = res \o <<said, [step |-> orch.i + 1, status |-> "executing",
                                                 actions |-> agentResponse.actions]>>
    /\ UNCHANGED <<orchRestVars, files>>

\* executeActions has returned: the results, the tool results turn, the
\* message of the step, and the test of the completion message
OrchExecuted ==
    /\ orch.pc = "executing"
    /\ \E run \in executeActions(orch.agentResponse.actions, files) :
          LET results == run.results
              hasErrors == \E k \in DOMAIN results : ~results[k].success
              toolResultMessage ==
                 JoinWith([k \in DOMAIN results |->
                             ToolResultLine(orch.agentResponse.actions[k], results[k])], "\n\n")
              message == Get(orch.agentResponse, "message")
              pushed == [orch EXCEPT
                           !.allToolResults = @ \o results,
                           !.messages = Append(@, [role |-> "user", content |->
                                 "Tool execution results:\n\n" \o toolResultMessage])]
          IN /\ files' = run.files
             /\ res' = Append(res, [step |-> orch.i + 1,
                                    status |-> IF hasErrors THEN "error" ELSE "executed",
                                    results |-> results])
             /\ orch' = IF ~hasErrors /\ message # Undefined
                            /\ Includes(ToLowerCase(message), "done")
                        THEN [pushed EXCEPT !.pc = "after"]
                        ELSE [pushed EXCEPT !.pc = "loop", !.i = @ + 1]
    /\ UNCHANGED orchRestVars

\* after the loop: the done message and the return
OrchDone ==
    /\ \/ orch.pc = "after"
       \/ orch.pc = "loop" /\ ~IterationTest(orch.i, orch.maxIterations)
    /\ res' = Append(res, [done |-> TRUE])
    /\ orch' = [orch EXCEPT !.pc = "returned"]
    /\ UNCHANGED <<orchRestVars, files>>

NextOrchestrator ==
    \/ OrchStart
    \/ OrchSetupThrows
    \/ OrchThink
    \/ OrchReply
    \/ OrchExecuted
    \/ OrchDone

SpecOrchestrator == InitOrchestrator /\ [][NextOrchestrator]_vars

\* the number of {done: true} messages written
DoneWritten == Cardinality({k \in DOMAIN res : res[k] = [done |-> TRUE]})

\* C34: the orchestrator calls the model at most maxIterations times; it
\* writes no {done: true} before it returns and, when it has returned,
\* exactly one, which is the last message written.
C34_OneDoneAtTheEnd ==
    /\ orch.pc \notin {"none", "idle", "failed"} => orch.calls <= orch.maxIterations
    /\ orch.pc # "returned" => DoneWritten = 0
    /\ orch.pc = "returned" => DoneWritten = 1 /\ res[Len(res)] = [done |-> TRUE]

\* the loop returns after a step that ended in the catch block
C34_WitnessException ==
    /\ orch.pc = "returned"
    /\ Len(res) >= 2
    /\ res[Len(res) - 1] = StepFailed(orch.i)

\* the loop returns with its budget of iterations used up
C34_Witness ==
    /\ orch.pc = "returned"
    /\ orch.calls = orch.maxIterations
    /\ orch.i = orch.maxIterations

\* C35: the messages list starts with the user prompt and alternates user
\* and assistant turns, whatever the iterations did.
C35_RolesAlternate ==
    orch.pc \notin {"none", "idle", "failed"} =>
       /\ orch.messages # <<>>
       /\ orch.messages[1] = [role |-> "user", content |-> orch.prompt]
       /\ \A k \in DOMAIN orch.messages :
             orch.messages[k].role = IF k % 2 = 1 THEN "user" ELSE "assistant"

\* an iteration has ended by exception after the assistant turn was pushed,
\* an earlier one having pushed tool results
C35_Witness ==
    /\ orch.pc = "returned"
    /\ Len(orch.messages) = 4
    /\ res[Len(res) - 1] = StepFailed(orch.i)

(***************************************************************************)
(* The project runner: startProject, stopProject and the handlers of the   *)
(* child processes, over the map runningProcesses.                         *)
(***************************************************************************)

\* Upper bound on the number of calls of startProject.
MaxStarts == 2

\* Upper bound on the number of calls of stopProject.
MaxStops == 1

\* the project ids of the calls; project 2 has no directory in the workspace
RunnerProjects == {1, 2}
WorkspaceDirs  == {1}

\* runningProcesses.delete(projectId)
MapDelete(map, key) == [k \in DOMAIN map \ {key} |-> map[k]]

\* runningProcesses.set(projectId, entry)
MapSet(map, key, entry) == [k \in DOMAIN map \cup {key} |-> IF k = key THEN entry ELSE map[k]]

\* runningProcesses.get(projectId) is truthy
StartCheck(r, projectId) == projectId \in DOMAIN r.runningProcesses

\* the callback of setTimeout in stopProject
TimerBody(r, t) ==
    IF t.projectId \in DOMAIN r.runningProcesses
    THEN [r EXCEPT !.children[t.process].state =
                      IF @ = "alive" THEN "dead" ELSE @,
                   !.runningProcesses = MapDelete(@, t.projectId)]
    ELSE r

\* the runner with no process, no call and no timer
IdleRunner ==
    [pc |-> "run", runningProcesses |-> <<>>, children |-> <<>>, calls |-> <<>>,
     timers |-> <<>>, stops |-> 0]

InitRunner ==
    /\ AtRest
    /\ client = NoClient
    /\ orch = NoOrchestrator
    /\ procs = IdleRunner
    /\ edits = NoEdits

\* startProject up to await fs.access: the test of runningProcesses
StartProject ==
    /\ Len(procs.calls) < MaxStarts
    /\ \E projectId \in RunnerProjects :
          procs' = [procs EXCEPT !.calls = Append(@,
                      IF StartCheck(procs, projectId)
                      THEN [projectId |-> projectId, pc |-> "returned",
                            result |-> [success |-> FALSE,
                                        message |-> "Project is already running"]]
                      ELSE [projectId |-> projectId, pc |-> "access",
                            result |-> Undefined])]
    /\ UNCHANGED <<atRestVars, client, orch, edits>>

\* fs.access(projectRoot) settles: on to detectProjectType, or the return
\* of "Project directory not found"
StartAccess ==
    /\ \E k \in DOMAIN procs.calls :
          /\ procs.calls[k].pc = "access"
          /\ procs' = [procs EXCEPT !.calls[k] =
                IF procs.calls[k].projectId \in WorkspaceDirs
                THEN [@ EXCEPT !.pc = "detect"]
                ELSE [@ EXCEPT !.pc = "returned",
                               !.result = [success |-> FALSE,
                                           message |-> "Project directory not found"]]]
    /\ UNCHANGED <<atRestVars, client, orch, edits>>

\* detectProjectType resolves: spawn, runningProcesses.set, the handlers,
\* the return; a child that cannot be spawned emits "error" instead of "exit"
StartSpawn ==
    /\ \E k \in DOMAIN procs.calls, state \in {"alive", "errored"} :
          /\ procs.calls[k].pc = "detect"
          /\ LET projectId == procs.calls[k].projectId
                 child == Len(procs.children) + 1
             IN procs' = [procs EXCEPT
                   !.children = Append(@, [projectId |-> projectId, state |-> state]),
                   !.runningProcesses = MapSet(@, projectId,
                                               [process |-> child, projectId |-> projectId,
                                                port |-> 3000 + projectId]),
                   !.calls[k] = [@ EXCEPT !.pc = "returned",
                                          !.result = [success |-> TRUE, port |-> 3000 + projectId]]]
    /\ UNCHANGED <<atRestVars, client, orch, edits>>

\* stopProject(projectId): SIGTERM and the 5 s timer, or "not running"
StopProject ==
    /\ procs.stops < MaxStops
    /\ \E projectId \in RunnerProjects :
          procs' = IF projectId \in DOMAIN procs.runningProcesses
                   THEN [procs EXCEPT
                           !.stops = @ + 1,
                           !.timers = Append(@,
                              [projectId |-> projectId,
                               process |-> procs.runningProcesses[projectId].process])]
                   ELSE [procs EXCEPT !.stops = @ + 1]
    /\ UNCHANGED <<atRestVars, client, orch, edits>>

\* a child process ends: by itself, or on the SIGTERM of stopProject
ChildDies ==
    /\ \E c \in DOMAIN procs.children :
          /\ procs.children[c].state = "alive"
          /\ procs' = [procs EXCEPT !.children[c].state = "dead"]
    /\ UNCHANGED <<atRestVars, client, orch, edits>>

\* child.on("exit"): runningProcesses.delete(projectId)
ChildExit ==
    /\ \E c \in DOMAIN procs.children :
          /\ procs.children[c].state = "dead"
          /\ procs' = [procs EXCEPT
                !.children[c].state = "exited",
                !.runningProcesses = MapDelete(@, procs.children[c].projectId)]
    /\ UNCHANGED <<atRestVars, client, orch, edits>>

\* child.on("error"): runningProcesses.delete(projectId)
ChildError ==
    /\ \E c \in DOMAIN procs.children :
          /\ procs.children[c].state = "errored"
          /\ procs' = [procs EXCEPT
                !.children[c].state = "exited",
                !.runningProcesses = MapDelete(@, procs.children[c].projectId)]
    /\ UNCHANGED <<atRestVars, client, orch, edits>>

\* the timer of a stopProject expires
TimerFires ==
    /\ \E k \in DOMAIN procs.timers :
          procs' = [TimerBody(procs, procs.timers[k]) EXCEPT
                      !.timers = [j \in 1..(Len(procs.timers) - 1) |->
                                    IF j < k THEN procs.timers[j] ELSE procs.timers[j + 1]]]
    /\ UNCHANGED <<atRestVars, client, orch, edits>>

NextRunner ==
    \/ StartProject
    \/ StartAccess
    \/ StartSpawn
    \/ StopProject
    \/ ChildDies
    \/ ChildExit
    \/ ChildError
    \/ TimerFires

SpecRunner == InitRunner /\ [][NextRunner]_vars

\* the child processes of a project that are alive
AliveChildren(projectId) ==
    {c \in DOMAIN procs.children :
        procs.children[c].projectId = projectId /\ procs.children[c].state = "alive"}

\* C37: at most one child process per project id is alive at any time, also
\* when calls of startProject for the project overlap.
C37_OneChildPerProject ==
    \A projectId \in RunnerProjects : Cardinality(AliveChildren(projectId)) <= 1

\* C38: while a child process of a project is alive, runningProcesses holds
\* an entry for the project that refers to that process.
C38_AliveChildIsRegistered ==
    \A projectId \in RunnerProjects :
       \A c \in AliveChildren(projectId) :
          /\ projectId \in DOMAIN procs.runningProcesses
          /\ procs.runningProcesses[projectId].process = c

(***************************************************************************)
(* Two loops at once: calls of applyDiff on one file whose reads and       *)
(* writes interleave.                                                      *)
(***************************************************************************)

\* Upper bound on the number of calls of applyDiff in flight.
MaxEdits == 2

\* the file that the calls edit, and its content before them
EditedPath == "package.json"
EditedFull == PathResolve(PROJECT_ROOT, EditedPath)

\* the (search, replace) pairs of the calls: two that match disjoint parts of
\* the file, one that overlaps both, one that matches nothing
EditRequests ==
    {[search |-> "{", replace |-> "["],
     [search |-> "}", replace |-> "]"],
     [search |-> "{}", replace |-> "()"],
     [search |-> "x", replace |-> "y"]}

\* no call of applyDiff yet
IdleEdits == [pc |-> "run", before |-> "", calls |-> <<>>]

InitEdits ==
    /\ AtRest
    /\ client = NoClient
    /\ orch = NoOrchestrator
    /\ procs = NoProcesses
    /\ edits = [IdleEdits EXCEPT !.before = Utf8Decode(files[EditedFull])]

\* the variables that the calls of applyDiff leave alone
editRestVars == <<model, pc, step, fullContent, events, anthropicMessages, response, blockIdx,
                  hasToolUse, toolResults, res, returned, invocations, running, executed,
                  last, ncalls, written, walk, projects, client, orch, procs>>

\* a loop calls applyDiff(EditedPath, search, replace): up to await fs.readFile
EditIssue ==
    /\ Len(edits.calls) < MaxEdits
    /\ \E request \in EditRequests :
          edits' = [edits EXCEPT !.calls = Append(@,
                      [search |-> request.search, replace |-> request.replace,
                       pc |-> "reading", out |-> Undefined])]
    /\ UNCHANGED <<editRestVars, files>>

\* fs.readFile resolves: the tests and content.replace on the content read,
\* up to await fs.writeFile, or the return of a failure
EditRead ==
    /\ \E k \in DOMAIN edits.calls :
          /\ edits.calls[k].pc = "reading"
          /\ \E out \in applyDiff(EditedPath, edits.calls[k].search,
                                  edits.calls[k].replace, files) :
                edits' = [edits EXCEPT !.calls[k] =
                            [@ EXCEPT !.out = out,
                                      !.pc = IF out.result.success
                                             THEN "writing" ELSE "returned"]]
    /\ UNCHANGED <<editRestVars, files>>

\* fs.writeFile resolves: the content computed from what was read is on the
\* disk, and applyDiff returns success
EditWrite ==
    /\ \E k \in DOMAIN edits.calls :
          /\ edits.calls[k].pc = "writing"
          /\ files' = FsWrite(files, EditedFull, edits.calls[k].out.files[EditedFull])
          /\ edits' = [edits EXCEPT !.calls[k].pc = "returned"]
    /\ UNCHANGED editRestVars

NextEdits ==
    \/ EditIssue
    \/ EditRead
    \/ EditWrite

SpecEdits == InitEdits /\ [][NextEdits]_vars

\* the first matches of two search strings in a content do not overlap
DisjointMatches(content, search1, search2) ==
    LET i1 == IndexOf(content, search1)
        i2 == IndexOf(content, search2)
    IN /\ i1 > 0
       /\ i2 > 0
       /\ \/ i1 + Len(search1) <= i2
          \/ i2 + Len(search2) <= i1

\* C39: two calls of edit_file on one file whose search strings match
\* disjoint parts of it and that both return success leave a file that holds
\* both substitutions, however their reads and writes interleave.
C39_NoLostUpdate ==
    (/\ Len(edits.calls) = 2
     /\ \A k \in DOMAIN edits.calls :
           edits.calls[k].pc = "returned" /\ edits.calls[k].out.result.success
     /\ DisjointMatches(edits.before, edits.calls[1].search, edits.calls[2].search))
    => files[EditedFull] =
          Utf8Encode(StringReplace(StringReplace(edits.before, edits.calls[1].search,
                                                 edits.calls[1].replace),
                                   edits.calls[2].search, edits.calls[2].replace))

====
